---- MODULE Spec2Model ----
(***************************************************************************)
(* CLKernel: the actor scheduler and mailboxes (kernel/core/scheduler.c)   *)
(* the module registry (kernel/core/modules.c) and the module sandboxes    *)
(* (kernel/core/sandboxing.c) as state machines.                           *)
(*                                                                         *)
(* The C code runs on one thread and never loads a saved CPU context (the  *)
(* context switch is bookkeeping only), so every public function is one    *)
(* atomic action: it runs to its return, nested calls included.  Of the    *)
(* byte allocator (kmalloc, kernel/core/heap.c) only the tests on the      *)
(* requested size are kept: each call that may reach it takes an input     *)
(* saying whether the heap has room for the block.                         *)
(*                                                                         *)
(* Pointers into the static pools are slot indices; NULL is -1.  The ready *)
(* queue is kept as the code keeps it: a head pointer plus the next/prev   *)
(* fields of the actors, so that a removal of an unlinked actor does what  *)
(* the pointer operations do.  A mailbox (a singly linked list reached     *)
(* only through its head) is the sequence of its messages' pool slots.     *)
(*                                                                         *)
(* Left out: the statistics no operation reads back (context_switches,     *)
(* ready_actors, the per-actor message counters, the timestamps,           *)
(* modules_loaded), the saved register image, and the behaviour            *)
(* score.  kfree (core/heap.c:188) only counts, so a freed pointer is      *)
(* never reused by the allocator and freeing twice has no effect.          *)
(*                                                                         *)
(* The sandbox state starts as sandboxing_init leaves it.  Of a sandbox    *)
(* the check and call counters, the execution context and the VM fields    *)
(* are left out; of a log entry, the description text.                     *)
(***************************************************************************)
EXTENDS Integers, Sequences, FiniteSets, TLC

NULL == 0 - 1

\* ----------------------------------------------------------------- bounds
\* The pool sizes and queue limits of the source, scaled down.
\* MAX_ACTORS (scheduler.h:27) is 256, MAX_MESSAGES (scheduler.h:28) is 1024,
\* the queue limits are 64 (scheduler.c:254) and 256 (scheduler.c:657).
MAX_ACTORS == 3
MAX_MESSAGES == 3
ACTOR_QUEUE_LIMIT == 2
KERNEL_QUEUE_LIMIT == 3
\* statistics.messages_sent is a uint64 counter: a send is taken only while
\* it leaves the counter within the specification's cap.
MaxSends == 3
SchedSends == 1
\* statistics.actors_created is a uint64 counter, capped the same way.
MaxCreates == 3
MailCreates == 1
PayloadSends == 1
TypedSends == 2
\* SCHEDULER_TIMESLICE_MS (scheduler.h:31) is 10 ticks.
SCHEDULER_TIMESLICE_MS == 2
\* How many timer ticks a behaviour has.
MaxTicks == 3
TickCreates == 2
\* MAX_MODULES (modules.h:27) is 64, MAX_MODULE_NAME (modules.h:28) is 64;
\* next_module_id is a uint32 counter, capped like the others.
MAX_MODULES == 2
MAX_MODULE_NAME == 2
\* statistics.load_errors is a uint32 counter, capped like the others.
MaxLoadErrors == 1
\* MAX_SANDBOXES (sandboxing.h:26) is 32, MAX_VIOLATION_LOG (sandboxing.h:29)
\* is 100.
MAX_SANDBOXES == 2
MAX_VIOLATION_LOG == 2
\* next_sandbox_id, total_violations, quarantined_modules and the usage of
\* a resource are uint32 and uint64 counters, capped like the others.
MaxSandboxIds == 2
CheckViolations == 1
MaxViolations == 6
MaxQuarantines == 2
MaxUsage == 1
MaxModuleIds == 3

\* ------------------------------------------------------ program constants
ACTOR_STATE_CREATED == 0
ACTOR_STATE_READY == 1
ACTOR_STATE_RUNNING == 2
ACTOR_STATE_BLOCKED == 3
ACTOR_STATE_FINISHED == 4
ACTOR_STATE_ERROR == 5
ACTOR_STATE_SUSPENDED == 6

ACTOR_PRIORITY_CRITICAL == 0
ACTOR_PRIORITY_NORMAL == 2

MSG_TYPE_ASYNC == 0
MSG_TYPE_SYSTEM == 4

ACTOR_STACK_SIZE == 8192
ACTOR_MEMORY_LIMIT == 1048576
HEAP_MAX_BLOCK_SIZE == 1048576

MODULE_MAGIC == 5066564
MODULE_VERSION == 1
MAX_MODULE_SIZE == 1048576
\* sizeof(module_header_t) on the 32-bit target.
MODULE_HEADER_SIZE == 572

MODULE_STATE_UNLOADED == 0
MODULE_STATE_LOADING == 1
MODULE_STATE_LOADED == 2
MODULE_STATE_RUNNING == 3
MODULE_STATE_UNLOADING == 4
MODULE_STATE_ERROR == 5

MODULE_FLAG_CORE == 1
MODULE_FLAG_AUTO_START == 2
MAX_RESOURCE_LIMITS == 16
SANDBOX_LEVEL_UNRESTRICTED == 0
SANDBOX_LEVEL_TRUSTED == 1
SANDBOX_LEVEL_USER == 2
SANDBOX_LEVEL_UNTRUSTED == 3
SANDBOX_LEVEL_QUARANTINE == 4
RESOURCE_MEMORY == 0
RESOURCE_CHILD_ACTORS == 4
RESOURCE_HEAP_ALLOCS == 5
RESOURCE_MODULE_CALLS == 6
RESOURCE_AI_QUERIES == 7
VIOLATION_CAPABILITY == 0
VIOLATION_RESOURCE == 1
VIOLATION_MEMORY == 2
VIOLATION_EXECUTION == 3

ActorSlots == 0 .. (MAX_ACTORS - 1)
ModuleSlots == 0 .. (MAX_MODULES - 1)
MessageSlots == 0 .. (MAX_MESSAGES - 1)

VARIABLES
    actor_pool,          \* actor_pool[i]: the actor_t in slot i
    actor_pool_used,     \* actor_pool_used[i]
    actors,              \* kernel_scheduler.actors[i] # NULL
    ready_queue,         \* kernel_scheduler.ready_queue (head slot or NULL)
    current_actor,       \* kernel_scheduler.current_actor (slot or NULL)
    scheduler_enabled,   \* kernel_scheduler.scheduler_enabled
    message_pool,        \* message_pool[i]: the message_t in slot i
    message_pool_used,   \* message_pool_used[i]
    messages_sent,       \* kernel_scheduler.statistics.messages_sent
    messages_delivered,  \* kernel_scheduler.statistics.messages_delivered
    actors_created,      \* kernel_scheduler.statistics.actors_created
    current_timeslice,   \* kernel_scheduler.current_timeslice
    tick_count,          \* kernel_scheduler.tick_count
    held,                \* callers' side: messages returned by receive, not yet freed
    hist,                \* history per message slot: what was sent, and its fate
    enqueue_clock,       \* history: the number of enqueues so far
    released_count       \* history: messages freed by actor_clear_message_queue

schedVars == << actor_pool, actor_pool_used, actors, ready_queue, current_actor,
                scheduler_enabled, message_pool, message_pool_used,
                messages_sent, messages_delivered, actors_created,
                current_timeslice, tick_count, held, hist,
                enqueue_clock, released_count >>

VARIABLES
    module_pool,         \* kernel_module_system.module_pool[i]
    module_pool_used,    \* kernel_module_system.module_pool_used[i]
    loaded_modules,      \* kernel_module_system.loaded_modules (head or NULL)
    module_count,        \* kernel_module_system.module_count
    next_module_id,      \* kernel_module_system.next_module_id
    total_memory_used,   \* kernel_module_system.statistics.total_memory_used
    load_errors          \* kernel_module_system.statistics.load_errors

modVars == << module_pool, module_pool_used, loaded_modules, module_count,
              next_module_id, total_memory_used, load_errors >>

VARIABLES
    sandbox_system       \* sandbox_system and sandboxing_initialized

sandVars == << sandbox_system >>

\* --------------------------------------------------------------- records
\* A zero-filled actor_t (the pools are static arrays).
ZeroActor ==
    [ actor_id |-> 0, state |-> ACTOR_STATE_CREATED, priority |-> 0,
      stack_base |-> FALSE, stack_size |-> 0,
      message_queue |-> << >>, queue_size |-> 0, max_queue_size |-> 0,
      memory_limit |-> 0, memory_used |-> 0, cpu_time_used |-> 0,
      next |-> NULL, prev |-> NULL ]

\* A payload argument or field: a NULL pointer, or a buffer of bytes.
NullPayload == [ptr |-> FALSE, bytes |-> << >>]
Buffer(bytes) == [ptr |-> TRUE, bytes |-> bytes]

\* A zero-filled message_t.
ZeroMessage ==
    [ sender_id |-> 0, recipient_id |-> 0, message_id |-> 0, type |-> 0,
      payload_size |-> 0, payload |-> NullPayload ]

\* What the history keeps for a message slot while it is allocated: its place
\* in the order of enqueues, and what the sender passed to the send.
ZeroHist ==
    [ order |-> 0,
      given_payload |-> NullPayload, given_size |-> 0, given_sender |-> NULL ]

\* The kernel's state as one value, so that nested calls compose.
Kernel ==
    [ ap |-> actor_pool, au |-> actor_pool_used, at |-> actors,
      rq |-> ready_queue, cur |-> current_actor, en |-> scheduler_enabled,
      mp |-> message_pool, mu |-> message_pool_used,
      sent |-> messages_sent, deliv |-> messages_delivered,
      created |-> actors_created, slice |-> current_timeslice,
      ticks |-> tick_count,
      held |-> held, hist |-> hist, clock |-> enqueue_clock,
      rel |-> released_count ]

Commit(k) ==
    /\ actor_pool' = k.ap
    /\ actor_pool_used' = k.au
    /\ actors' = k.at
    /\ ready_queue' = k.rq
    /\ current_actor' = k.cur
    /\ scheduler_enabled' = k.en
    /\ message_pool' = k.mp
    /\ message_pool_used' = k.mu
    /\ messages_sent' = k.sent
    /\ messages_delivered' = k.deliv
    /\ actors_created' = k.created
    /\ current_timeslice' = k.slice
    /\ tick_count' = k.ticks
    /\ held' = k.held
    /\ hist' = k.hist
    /\ enqueue_clock' = k.clock
    /\ released_count' = k.rel
    /\ UNCHANGED << modVars, sandVars >>

\* uint32 arithmetic.  A uint32 below 2^31 is written as itself, one at or
\* above 2^31 as its value minus 2^32 (0 - 1 is 0xFFFFFFFF); the
\* operators work on the two 16-bit halves.
U32Hi(x) ==
    IF x >= 0 THEN x \div 65536
    ELSE 32768 + (((x + 2147483647) + 1) \div 65536)
U32Lo(x) ==
    IF x >= 0 THEN x % 65536 ELSE ((x + 2147483647) + 1) % 65536
\* a + b of two uint32 operands, as the machine computes it (mod 2^32).
U32Add(a, b) ==
    LET lo == U32Lo(a) + U32Lo(b)
        hi == (U32Hi(a) + U32Hi(b) + (lo \div 65536)) % 65536
    IN  IF hi < 32768 THEN (hi * 65536) + (lo % 65536)
        ELSE ((hi - 65536) * 65536) + (lo % 65536)
\* a > b of two uint32 operands.
U32Greater(a, b) ==
    \/ U32Hi(a) > U32Hi(b)
    \/ U32Hi(a) = U32Hi(b) /\ U32Lo(a) > U32Lo(b)

\* ------------------------------------------------------------ ready queue
\* scheduler_add_to_ready_queue: insertion at the head.
scheduler_add_to_ready_queue(k, a) ==
    IF a = NULL \/ k.ap[a].state # ACTOR_STATE_READY THEN k
    ELSE LET ap1 == [k.ap EXCEPT ![a].next = k.rq, ![a].prev = NULL]
             ap2 == IF k.rq # NULL THEN [ap1 EXCEPT ![k.rq].prev = a] ELSE ap1
         IN  [k EXCEPT !.ap = ap2, !.rq = a]

\* scheduler_remove_from_ready_queue: unlinks through the actor's own
\* prev/next, whether or not the actor is linked.
scheduler_remove_from_ready_queue(k, a) ==
    IF a = NULL THEN k
    ELSE LET p   == k.ap[a].prev
             ap1 == IF p # NULL THEN [k.ap EXCEPT ![p].next = k.ap[a].next] ELSE k.ap
             rq1 == IF p # NULL THEN k.rq ELSE k.ap[a].next
             n   == ap1[a].next
             ap2 == IF n # NULL THEN [ap1 EXCEPT ![n].prev = ap1[a].prev] ELSE ap1
             ap3 == [ap2 EXCEPT ![a].next = NULL, ![a].prev = NULL]
         IN  [k EXCEPT !.ap = ap3, !.rq = rq1]

\* scheduler_select_next_actor: the head of the ready queue.
scheduler_select_next_actor(k) == k.rq

\* scheduler_context_switch without the demotion of the outgoing actor.
scheduler_context_switch_no_demotion(k, next_actor) ==
    IF k.cur = next_actor THEN k
    ELSE IF next_actor # NULL
         THEN scheduler_remove_from_ready_queue(
                  [k EXCEPT !.cur = next_actor,
                            !.ap[next_actor].state = ACTOR_STATE_RUNNING],
                  next_actor)
         ELSE k

\* scheduler_context_switch.
scheduler_context_switch(k, next_actor) ==
    IF k.cur = next_actor THEN k
    ELSE LET current == k.cur
             k1 == IF current # NULL /\ k.ap[current].state = ACTOR_STATE_RUNNING
                   THEN [k EXCEPT !.ap[current].state = ACTOR_STATE_READY]
                   ELSE k
         IN  IF next_actor # NULL
             THEN scheduler_remove_from_ready_queue(
                      [k1 EXCEPT !.cur = next_actor,
                                 !.ap[next_actor].state = ACTOR_STATE_RUNNING],
                      next_actor)
             ELSE k1

\* scheduler_schedule.
scheduler_schedule(k) ==
    IF ~k.en THEN k
    ELSE LET next_actor == scheduler_select_next_actor(k)
         IN  IF next_actor # k.cur
             THEN scheduler_context_switch(k, next_actor)
             ELSE k

\* scheduler_yield.
scheduler_yield(k) ==
    LET current == k.cur
        k1 == IF current # NULL /\ k.ap[current].state = ACTOR_STATE_RUNNING
              THEN scheduler_add_to_ready_queue(
                       [k EXCEPT !.ap[current].state = ACTOR_STATE_READY], current)
              ELSE k
    IN  scheduler_schedule(k1)

\* scheduler_timer_handler without the reset of the timeslice counter.
scheduler_timer_handler_no_reset(k) ==
    LET k1 == [k EXCEPT !.ticks = U32Add(@, 1), !.slice = @ + 1]
        k2 == IF k1.cur # NULL
              THEN [k1 EXCEPT !.ap[k1.cur].cpu_time_used = @ + 1]
              ELSE k1
    IN  IF k2.slice >= SCHEDULER_TIMESLICE_MS
        THEN scheduler_yield(k2)
        ELSE k2

\* scheduler_timer_handler: the tick count (a uint32_t), the timeslice
\* counter and the current actor's cpu time advance, and the handler yields
\* and resets the timeslice counter when it reaches the timeslice.
scheduler_timer_handler(k) ==
    LET k1 == [k EXCEPT !.ticks = U32Add(@, 1), !.slice = @ + 1]
        k2 == IF k1.cur # NULL
              THEN [k1 EXCEPT !.ap[k1.cur].cpu_time_used = @ + 1]
              ELSE k1
    IN  IF k2.slice >= SCHEDULER_TIMESLICE_MS
        THEN scheduler_yield([k2 EXCEPT !.slice = 0])
        ELSE k2

\* actor_get.
actor_get(k, actor_id) ==
    IF actor_id >= MAX_ACTORS THEN NULL
    ELSE IF k.at[actor_id] THEN actor_id ELSE NULL

\* ------------------------------------------------------------- messages
\* message_allocate: the first free pool slot, or NULL.  A slot's history
\* starts afresh with its allocation.
FirstFreeMessage(k) ==
    IF \E i \in MessageSlots : ~k.mu[i]
    THEN CHOOSE i \in MessageSlots :
             ~k.mu[i] /\ \A j \in MessageSlots : j < i => k.mu[j]
    ELSE NULL

message_allocate(k) ==
    LET m == FirstFreeMessage(k)
    IN  IF m = NULL THEN [k |-> k, m |-> NULL]
        ELSE [k |-> [k EXCEPT !.mu[m] = TRUE, !.hist[m] = ZeroHist], m |-> m]

\* message_free: the payload is handed back to the allocator and the pool
\* slot is marked free.  The C code leaves the message_t as it was; no field
\* of a free slot is read before message_send_async has written it again, so
\* the model keeps a free slot zero-filled.
message_free(k, m) ==
    IF m = NULL THEN k
    ELSE [k EXCEPT !.mu[m] = FALSE, !.mp[m] = ZeroMessage, !.hist[m] = ZeroHist]

\* The number of kfree calls message_free makes on the payload of message m
\* (scheduler.c:515-518): one when the payload pointer is not NULL.  kfree
\* does not clear the pointer it is given.
PayloadFrees(k, m) == IF k.mp[m].payload.ptr THEN 1 ELSE 0

\* actor_add_message with the limit test off by one (> for >=).
actor_add_message_off_by_one(k, actor, m) ==
    IF actor = NULL \/ m = NULL THEN [k |-> k, ok |-> FALSE]
    ELSE IF k.ap[actor].queue_size > k.ap[actor].max_queue_size
    THEN [k |-> k, ok |-> FALSE]
    ELSE [k |-> [k EXCEPT !.ap[actor].message_queue = Append(@, m),
                          !.ap[actor].queue_size = @ + 1],
          ok |-> TRUE]

\* actor_add_message linking the new message at the head of the list.
actor_add_message_at_head(k, actor, m) ==
    IF actor = NULL \/ m = NULL THEN [k |-> k, ok |-> FALSE]
    ELSE IF k.ap[actor].queue_size >= k.ap[actor].max_queue_size
    THEN [k |-> k, ok |-> FALSE]
    ELSE [k |-> [k EXCEPT !.ap[actor].message_queue = << m >> \o @,
                          !.ap[actor].queue_size = @ + 1],
          ok |-> TRUE]

\* actor_add_message: append at the tail unless the queue is at its limit.
actor_add_message(k, actor, m) ==
    IF actor = NULL \/ m = NULL THEN [k |-> k, ok |-> FALSE]
    ELSE IF k.ap[actor].queue_size >= k.ap[actor].max_queue_size
    THEN [k |-> k, ok |-> FALSE]
    ELSE [k |-> [k EXCEPT !.ap[actor].message_queue = Append(@, m),
                          !.ap[actor].queue_size = @ + 1],
          ok |-> TRUE]

\* The loop of actor_clear_message_queue: message_free on each message of the
\* list, from the head.
RECURSIVE FreeAll(_, _)
FreeAll(k, q) ==
    IF q = << >> THEN k ELSE FreeAll(message_free(k, Head(q)), Tail(q))

\* actor_clear_message_queue: every queued message is freed, the queue is
\* emptied.
actor_clear_message_queue(k, actor) ==
    IF actor = NULL THEN k
    ELSE LET q == k.ap[actor].message_queue
             k1 == FreeAll(k, q)
         IN  [k1 EXCEPT
                !.rel = @ + Len(q),
                !.ap[actor].message_queue = << >>,
                !.ap[actor].queue_size = 0]

\* kmalloc without the test on the largest block.
kmalloc_no_block_limit(size, heap_ok) == heap_ok /\ size # 0

\* kmalloc taking blocks of up to twice HEAP_MAX_BLOCK_SIZE.
kmalloc_double_block_limit(size, heap_ok) ==
    heap_ok /\ size # 0 /\ size <= 2 * HEAP_MAX_BLOCK_SIZE

\* kmalloc: whether it returns a block.  A request of 0 bytes or of more
\* than HEAP_MAX_BLOCK_SIZE bytes returns NULL whatever the heap holds;
\* heap_ok says whether the slab or the bump allocator has room for any
\* other request.
kmalloc(size, heap_ok) ==
    heap_ok /\ size # 0 /\ size <= HEAP_MAX_BLOCK_SIZE

\* The bytes the copy loop of message_send_async writes: dst[i] = src[i]
\* for i < payload_size.
CopyPayload(payload, payload_size) ==
    Buffer([i \in 1 .. payload_size |-> payload.bytes[i]])

\* message_send_async storing the recipient's id as the sender's.
SenderOf_recipient(k, recipient_id) == recipient_id

\* The sender_id message_send_async stores.
SenderOf(k, recipient_id) ==
    IF k.cur # NULL THEN k.ap[k.cur].actor_id ELSE 0

\* message_send_async.  payload is NULL or the caller's buffer (of at least
\* payload_size bytes); kmalloc_ok says whether the heap has room for the
\* payload allocation, if the call makes one.  frees is the number of
\* kfree calls the send makes on the buffer it allocated for the payload.
message_send_async(k, recipient_id, type, payload, payload_size, kmalloc_ok) ==
    LET recipient == actor_get(k, recipient_id)
        failed    == [k |-> k, ok |-> FALSE, alloc_failed |-> FALSE, frees |-> 0]
    IN
    IF recipient = NULL THEN failed
    ELSE
    LET al == message_allocate(k) IN
    IF al.m = NULL THEN failed
    ELSE
    LET m      == al.m
        copies == payload.ptr /\ payload_size > 0
        msg    == [ sender_id    |-> SenderOf(al.k, recipient_id),
                    recipient_id |-> recipient_id,
                    message_id   |-> al.k.sent + 1,
                    type         |-> type,
                    payload_size |-> payload_size,
                    payload      |-> IF copies
                                     THEN CopyPayload(payload, payload_size)
                                     ELSE NullPayload ]
        k1     == [al.k EXCEPT !.mp[m] = msg]
    IN
    IF copies /\ ~kmalloc(payload_size, kmalloc_ok)
    THEN \* kmalloc returned NULL: the message goes back to the pool
         LET k2 == [k1 EXCEPT !.mp[m].payload = NullPayload]
         IN  [k |-> message_free(k2, m), ok |-> FALSE, alloc_failed |-> TRUE,
              frees |-> PayloadFrees(k2, m)]
    ELSE
    LET add == actor_add_message(k1, recipient, m) IN
    IF add.ok
    THEN LET k2 == [add.k EXCEPT
                      !.sent = @ + 1,
                      !.clock = @ + 1,
                      !.hist[m] = [ order |-> add.k.clock + 1,
                                    given_payload |-> payload,
                                    given_size |-> payload_size,
                                    given_sender |-> k.cur ]]
             k4 == IF k2.ap[recipient].state = ACTOR_STATE_BLOCKED
                   THEN scheduler_add_to_ready_queue(
                            [k2 EXCEPT !.ap[recipient].state = ACTOR_STATE_READY],
                            recipient)
                   ELSE k2
         IN  [k |-> k4, ok |-> TRUE, alloc_failed |-> FALSE, frees |-> 0]
    ELSE \* the queue refused the message: the payload is freed here, and
         \* message_free then frees what message->payload still points to
         [k |-> message_free(add.k, m), ok |-> FALSE, alloc_failed |-> FALSE,
          frees |-> (IF add.k.mp[m].payload.ptr THEN 1 ELSE 0)
                        + PayloadFrees(add.k, m)]

\* message_receive returning the head without unlinking it.
message_receive_keeps_head(k) ==
    LET current == k.cur IN
    IF current = NULL THEN [k |-> k, m |-> NULL]
    ELSE IF k.ap[current].message_queue = << >> THEN [k |-> k, m |-> NULL]
    ELSE LET m == Head(k.ap[current].message_queue)
         IN  [k |-> [k EXCEPT !.deliv = @ + 1, !.held = @ \cup {m}], m |-> m]

\* message_receive without the decrement of queue_size.
message_receive_no_decrement(k) ==
    LET current == k.cur IN
    IF current = NULL THEN [k |-> k, m |-> NULL]
    ELSE IF k.ap[current].message_queue = << >> THEN [k |-> k, m |-> NULL]
    ELSE LET m == Head(k.ap[current].message_queue)
         IN  [k |-> [k EXCEPT
                       !.ap[current].message_queue = Tail(@),
                       !.deliv = @ + 1,
                       !.held = @ \cup {m}],
              m |-> m]

\* message_receive: the head of the current actor's queue, or NULL.
message_receive(k) ==
    LET current == k.cur IN
    IF current = NULL THEN [k |-> k, m |-> NULL]
    ELSE IF k.ap[current].message_queue = << >> THEN [k |-> k, m |-> NULL]
    ELSE LET m == Head(k.ap[current].message_queue)
         IN  [k |-> [k EXCEPT
                       !.ap[current].message_queue = Tail(@),
                       !.ap[current].queue_size = @ - 1,
                       !.deliv = @ + 1,
                       !.held = @ \cup {m}],
              m |-> m]

\* message_wait: the timeout is not read (scheduler.c:498).
message_wait(k, timeout_ms) ==
    LET current == k.cur IN
    IF current = NULL THEN [k |-> k, m |-> NULL, blocked |-> FALSE]
    ELSE
    LET first == message_receive(k) IN
    IF first.m # NULL THEN [k |-> first.k, m |-> first.m, blocked |-> FALSE]
    ELSE
    LET k1 == [first.k EXCEPT !.ap[current].state = ACTOR_STATE_BLOCKED]
        k2 == scheduler_remove_from_ready_queue(k1, current)
        k3 == scheduler_yield(k2)
        again == message_receive(k3)
    IN  [k |-> again.k, m |-> again.m, blocked |-> TRUE]

\* ---------------------------------------------------------------- actors
\* actor_create's search for a free slot: slot 0 is the kernel's.
FirstFreeActor(k) ==
    IF \E i \in ActorSlots : i >= 1 /\ ~k.au[i]
    THEN CHOOSE i \in ActorSlots :
             i >= 1 /\ ~k.au[i] /\ \A j \in ActorSlots : (j >= 1 /\ j < i) => k.au[j]
    ELSE 0

\* actor_create.  entry_point says whether the entry pointer is non-NULL,
\* kmalloc_ok whether the heap has room for the stack.  Returns the id, 0
\* on failure.
actor_create(k, entry_point, priority, stack_size, kmalloc_ok) ==
    IF ~entry_point THEN [k |-> k, id |-> 0]
    ELSE
    LET actor_id == FirstFreeActor(k) IN
    IF actor_id = 0 THEN [k |-> k, id |-> 0]
    ELSE
    LET size == IF stack_size = 0 THEN ACTOR_STACK_SIZE ELSE stack_size
        \* the fields written before the stack allocation
        early == [k.ap[actor_id] EXCEPT
                    !.actor_id = actor_id,
                    !.state = ACTOR_STATE_CREATED,
                    !.priority = priority]
    IN
    IF ~kmalloc(size, kmalloc_ok)
    THEN [k |-> [k EXCEPT !.ap[actor_id] = [early EXCEPT !.stack_base = FALSE]],
          id |-> 0]
    ELSE [k |-> [k EXCEPT
                   !.created = @ + 1,
                   !.au[actor_id] = TRUE,
                   !.at[actor_id] = TRUE,
                   !.ap[actor_id] =
                       [ actor_id |-> actor_id, state |-> ACTOR_STATE_CREATED,
                         priority |-> priority,
                         stack_base |-> TRUE, stack_size |-> size,
                         message_queue |-> << >>, queue_size |-> 0,
                         max_queue_size |-> ACTOR_QUEUE_LIMIT,
                         memory_limit |-> ACTOR_MEMORY_LIMIT,
                         memory_used |-> size, cpu_time_used |-> 0,
                         next |-> NULL, prev |-> NULL ]],
          id |-> actor_id]

\* actor_create_kernel_actor: slot 0, Running, and the current actor.
actor_create_kernel_actor(k) ==
    [k EXCEPT
       !.au[0] = TRUE,
       !.at[0] = TRUE,
       !.cur = 0,
       !.ap[0] = [ actor_id |-> 0, state |-> ACTOR_STATE_RUNNING,
                   priority |-> ACTOR_PRIORITY_CRITICAL,
                   stack_base |-> FALSE, stack_size |-> 0,
                   message_queue |-> << >>, queue_size |-> 0,
                   max_queue_size |-> KERNEL_QUEUE_LIMIT,
                   memory_limit |-> 0, memory_used |-> 0, cpu_time_used |-> 0,
                   next |-> NULL, prev |-> NULL ]]

\* actor_start.
actor_start(k, actor_id) ==
    LET actor == actor_get(k, actor_id) IN
    IF actor = NULL \/ k.ap[actor].state # ACTOR_STATE_CREATED
    THEN [k |-> k, ok |-> FALSE]
    ELSE [k |-> scheduler_add_to_ready_queue(
                    [k EXCEPT !.ap[actor].state = ACTOR_STATE_READY], actor),
          ok |-> TRUE]

\* actor_terminate.
actor_terminate(k, actor_id) ==
    LET actor == actor_get(k, actor_id) IN
    IF actor = NULL THEN k
    ELSE LET k1 == scheduler_remove_from_ready_queue(k, actor)
             k2 == actor_clear_message_queue(k1, actor)
         IN  [k2 EXCEPT !.ap[actor].state = ACTOR_STATE_FINISHED,
                        !.at[actor_id] = FALSE,
                        !.au[actor_id] = FALSE]

\* scheduler_init.
scheduler_init ==
    actor_create_kernel_actor(
        [ ap |-> [i \in ActorSlots |-> ZeroActor],
          au |-> [i \in ActorSlots |-> FALSE],
          at |-> [i \in ActorSlots |-> FALSE],
          rq |-> NULL, cur |-> NULL, en |-> FALSE,
          mp |-> [i \in MessageSlots |-> ZeroMessage],
          mu |-> [i \in MessageSlots |-> FALSE],
          sent |-> 0, deliv |-> 0, created |-> 0, slice |-> 0, ticks |-> 0,
          held |-> {}, hist |-> [i \in MessageSlots |-> ZeroHist], clock |-> 0,
          rel |-> 0 ])

\* scheduler_start.
scheduler_start(k) == scheduler_schedule([k EXCEPT !.en = TRUE])

\* --------------------------------------------------------------- modules
\* A zero-filled module_t.  base_address, init_func and exit_func say whether
\* the pointer is non-NULL.
ZeroModule ==
    [ module_id |-> 0, name |-> << >>, state |-> MODULE_STATE_UNLOADED,
      flags |-> 0, base_address |-> FALSE, total_size |-> 0,
      memory_allocated |-> 0, init_func |-> FALSE, exit_func |-> FALSE,
      dependent_count |-> 0, error_count |-> 0,
      next |-> NULL, prev |-> NULL ]

\* The module registry as one value.
Registry ==
    [ mp |-> module_pool, mu |-> module_pool_used, head |-> loaded_modules,
      count |-> module_count, next_id |-> next_module_id,
      mem |-> total_memory_used, errs |-> load_errors ]

ModCommit(r) ==
    /\ module_pool' = r.mp
    /\ module_pool_used' = r.mu
    /\ loaded_modules' = r.head
    /\ module_count' = r.count
    /\ next_module_id' = r.next_id
    /\ total_memory_used' = r.mem
    /\ load_errors' = r.errs
    /\ UNCHANGED << schedVars, sandVars >>

\* flags & flag, for a one-bit flag.
HasFlag(flags, flag) == (flags \div flag) % 2 = 1

\* modules_init.
modules_init ==
    [ mp |-> [i \in ModuleSlots |-> ZeroModule],
      mu |-> [i \in ModuleSlots |-> FALSE],
      head |-> NULL, count |-> 0, next_id |-> 1, mem |-> 0, errs |-> 0 ]

\* module_validate without the test of the section sizes.
module_validate_no_section_test(module_data, size) ==
    IF ~module_data.ptr \/ size < MODULE_HEADER_SIZE THEN FALSE
    ELSE IF module_data.magic # MODULE_MAGIC THEN FALSE
    ELSE IF module_data.version # MODULE_VERSION THEN FALSE
    ELSE IF size < MODULE_HEADER_SIZE + module_data.code_size
                       + module_data.data_size
    THEN FALSE
    ELSE TRUE

\* module_validate.  module_data is a NULL pointer or a header followed by
\* the sections; size is the caller's byte count.  The sum is a size_t; the
\* section sizes drawn here stay below 2^21, where it cannot wrap.
module_validate(module_data, size) ==
    IF ~module_data.ptr \/ size < MODULE_HEADER_SIZE THEN FALSE
    ELSE IF module_data.magic # MODULE_MAGIC THEN FALSE
    ELSE IF module_data.version # MODULE_VERSION THEN FALSE
    ELSE IF size < MODULE_HEADER_SIZE + module_data.code_size
                       + module_data.data_size
    THEN FALSE
    ELSE IF \/ module_data.code_size > MAX_MODULE_SIZE
            \/ module_data.data_size > MAX_MODULE_SIZE
            \/ module_data.bss_size > MAX_MODULE_SIZE
    THEN FALSE
    ELSE TRUE

\* The walk of module_get along the loaded list.
RECURSIVE GetFrom(_, _, _, _)
GetFrom(r, from, module_id, fuel) ==
    IF from = NULL \/ fuel = 0 THEN NULL
    ELSE IF r.mp[from].module_id = module_id THEN from
    ELSE GetFrom(r, r.mp[from].next, module_id, fuel - 1)

\* module_get.
module_get(r, module_id) == GetFrom(r, r.head, module_id, MAX_MODULES)

\* The comparison loop of module_find_by_name: a stored name (terminated)
\* against a header's name array, which holds MAX_MODULE_NAME characters
\* when it has no terminator.
CharAt(name, i) == IF i <= Len(name) THEN name[i] ELSE 0

NameMatches(stored, name) ==
    \A i \in 1 .. MAX_MODULE_NAME :
        (\A j \in 1 .. (i - 1) : CharAt(stored, j) # 0 \/ CharAt(name, j) # 0)
            => CharAt(stored, i) = CharAt(name, i)

RECURSIVE FindFrom(_, _, _, _)
FindFrom(r, from, name, fuel) ==
    IF from = NULL \/ fuel = 0 THEN NULL
    ELSE IF NameMatches(r.mp[from].name, name) THEN from
    ELSE FindFrom(r, r.mp[from].next, name, fuel - 1)

\* module_find_by_name.
module_find_by_name(r, name) == FindFrom(r, r.head, name, MAX_MODULES)

\* module_allocate: the first free pool slot, or NULL.
FirstFreeModule(r) ==
    IF \E i \in ModuleSlots : ~r.mu[i]
    THEN CHOOSE i \in ModuleSlots :
             ~r.mu[i] /\ \A j \in ModuleSlots : j < i => r.mu[j]
    ELSE NULL

\* module_free.
module_free(r, module) ==
    IF module = NULL THEN r ELSE [r EXCEPT !.mu[module] = FALSE]

\* module_add_to_list: insertion at the head.
module_add_to_list(r, module) ==
    IF module = NULL THEN r
    ELSE LET mp1 == [r.mp EXCEPT ![module].next = r.head, ![module].prev = NULL]
             mp2 == IF r.head # NULL THEN [mp1 EXCEPT ![r.head].prev = module]
                    ELSE mp1
         IN  [r EXCEPT !.mp = mp2, !.head = module, !.count = @ + 1]

\* module_remove_from_list.
module_remove_from_list(r, module) ==
    IF module = NULL THEN r
    ELSE LET p   == r.mp[module].prev
             mp1 == IF p # NULL THEN [r.mp EXCEPT ![p].next = r.mp[module].next]
                    ELSE r.mp
             h1  == IF p # NULL THEN r.head ELSE r.mp[module].next
             n   == mp1[module].next
             mp2 == IF n # NULL THEN [mp1 EXCEPT ![n].prev = mp1[module].prev]
                    ELSE mp1
             mp3 == [mp2 EXCEPT ![module].next = NULL, ![module].prev = NULL]
         IN  [r EXCEPT !.mp = mp3, !.head = h1, !.count = @ - 1]

\* module_start.  init_result is what the module's init function returns,
\* if it is called; inits is the number of calls of it the start makes.
module_start(r, module_id, init_result) ==
    LET module == module_get(r, module_id) IN
    IF module = NULL THEN [r |-> r, ok |-> FALSE, inits |-> 0]
    ELSE IF r.mp[module].state # MODULE_STATE_LOADED
    THEN [r |-> r, ok |-> FALSE, inits |-> 0]
    ELSE IF r.mp[module].init_func /\ init_result # 0
    THEN [r |-> [r EXCEPT !.mp[module].state = MODULE_STATE_ERROR,
                          !.mp[module].error_count = @ + 1],
          ok |-> FALSE, inits |-> 1]
    ELSE [r |-> [r EXCEPT !.mp[module].state = MODULE_STATE_RUNNING],
          ok |-> TRUE, inits |-> IF r.mp[module].init_func THEN 1 ELSE 0]

\* module_stop.  exits is the number of calls of the module's exit function
\* the stop makes.
module_stop(r, module_id) ==
    LET module == module_get(r, module_id) IN
    IF module = NULL THEN [r |-> r, ok |-> FALSE, exits |-> 0]
    ELSE IF r.mp[module].state # MODULE_STATE_RUNNING
    THEN [r |-> r, ok |-> FALSE, exits |-> 0]
    ELSE [r |-> [r EXCEPT !.mp[module].state = MODULE_STATE_LOADED],
          ok |-> TRUE, exits |-> IF r.mp[module].exit_func THEN 1 ELSE 0]

\* The name module_load stores: the characters before the terminator, at
\* most MAX_MODULE_NAME - 1 of them.
CopyName(name) ==
    SubSeq(name, 1, IF Len(name) < MAX_MODULE_NAME - 1
                    THEN Len(name) ELSE MAX_MODULE_NAME - 1)

\* module_load.  kmalloc_ok says whether the heap has room for the image.
\* Returns the module id, 0 on failure; inits is the number of calls of the
\* module's init function the load makes, init_ok whether such a call
\* returned 0.
module_load(r, module_data, size, kmalloc_ok, init_result) ==
    LET failed(x) == [r |-> x, id |-> 0, inits |-> 0, init_ok |-> FALSE] IN
    IF ~module_data.ptr \/ size = 0 THEN failed(r)
    ELSE IF ~module_validate(module_data, size)
    THEN failed([r EXCEPT !.errs = @ + 1])
    ELSE IF module_find_by_name(r, module_data.name) # NULL
    THEN failed(r)
    ELSE
    LET module == FirstFreeModule(r) IN
    IF module = NULL THEN failed([r EXCEPT !.errs = @ + 1])
    ELSE
    LET id == r.next_id
        total_size == module_data.code_size + module_data.data_size
                          + module_data.bss_size
        r1 == [r EXCEPT
                 !.mu[module] = TRUE,
                 !.next_id = @ + 1,
                 !.mp[module].module_id = id,
                 !.mp[module].name = CopyName(module_data.name),
                 !.mp[module].state = MODULE_STATE_LOADING,
                 !.mp[module].flags = module_data.flags]
    IN
    IF ~kmalloc(total_size, kmalloc_ok)
    THEN failed(module_free([r1 EXCEPT !.mp[module].base_address = FALSE,
                                       !.errs = @ + 1],
                            module))
    ELSE
    LET r2 == [r1 EXCEPT
                 !.mp[module].base_address = TRUE,
                 !.mp[module].total_size = total_size,
                 !.mp[module].init_func = module_data.entry_point # 0,
                 !.mp[module].exit_func = module_data.exit_point # 0,
                 !.mp[module].dependent_count = 0,
                 !.mp[module].memory_allocated = total_size,
                 !.mp[module].error_count = 0,
                 !.mp[module].next = NULL,
                 !.mp[module].prev = NULL]
        r3 == module_add_to_list(r2, module)
        r4 == [r3 EXCEPT !.mem = @ + total_size,
                         !.mp[module].state = MODULE_STATE_LOADED]
        r5 == IF HasFlag(r4.mp[module].flags, MODULE_FLAG_AUTO_START)
              THEN module_start(r4, id, init_result)
              ELSE [r |-> r4, ok |-> FALSE, inits |-> 0]
    IN  [r |-> r5.r, id |-> id, inits |-> r5.inits,
         init_ok |-> r5.ok /\ r5.inits = 1]

\* module_unload without the test of the Core flag.
module_unload_no_core_test(r, module_id) ==
    LET module == module_get(r, module_id) IN
    IF module = NULL THEN [r |-> r, ok |-> FALSE, exits |-> 0]
    ELSE IF r.mp[module].dependent_count > 0
    THEN [r |-> r, ok |-> FALSE, exits |-> 0]
    ELSE LET r1 == [r EXCEPT !.mp[module].state = MODULE_STATE_UNLOADING]
             r2 == module_remove_from_list(r1, module)
             r3 == [r2 EXCEPT !.mem = @ - r2.mp[module].memory_allocated]
         IN  [r |-> module_free(r3, module), ok |-> TRUE,
              exits |-> IF r.mp[module].exit_func THEN 1 ELSE 0]

\* module_unload.  The image is handed back to the allocator; the module_t
\* keeps its fields (base_address dangles) and its pool slot is freed.
\* exits is the number of calls of the module's exit function the unload
\* makes.
module_unload(r, module_id) ==
    LET module == module_get(r, module_id) IN
    IF module = NULL THEN [r |-> r, ok |-> FALSE, exits |-> 0]
    ELSE IF HasFlag(r.mp[module].flags, MODULE_FLAG_CORE)
    THEN [r |-> r, ok |-> FALSE, exits |-> 0]
    ELSE IF r.mp[module].dependent_count > 0
    THEN [r |-> r, ok |-> FALSE, exits |-> 0]
    ELSE LET r1 == [r EXCEPT !.mp[module].state = MODULE_STATE_UNLOADING]
             r2 == module_remove_from_list(r1, module)
             r3 == [r2 EXCEPT !.mem = @ - r2.mp[module].memory_allocated]
         IN  [r |-> module_free(r3, module), ok |-> TRUE,
              exits |-> IF r.mp[module].exit_func THEN 1 ELSE 0]

\* ------------------------------------------------------------- sandboxing
\* A capability mask (uint32) is the set of its bit positions: & is \cap,
\* | is \cup, ~x is CapBits \ x, and x != 0 is x # {}.
CapBits == 0 .. 31
CAP_MEMORY_ALLOC == {0}
CAP_MEMORY_FREE == {1}
CAP_SCHEDULER_CREATE == {5}
CAP_SCHEDULER_SIGNAL == {8}
CAP_MODULE_QUERY == {11}
CAP_VGA_WRITE == {12}
CAP_VGA_CLEAR == {13}
CAP_TIMER_ACCESS == {17}
CAP_FILESYSTEM_WRITE == {19}
CAP_AI_QUERY == {25}
CAP_DEBUG_ACCESS == {27}
CAP_SECURITY_OVERRIDE == {29}

\* The mask of a small number (a resource type passed where a capability
\* is expected).
MaskOf(n) == {i \in 0 .. 4 : (n \div (2 ^ i)) % 2 = 1}

SandboxSlots == 0 .. (MAX_SANDBOXES - 1)
ViolationSlots == 0 .. (MAX_VIOLATION_LOG - 1)
SandboxLevels == SANDBOX_LEVEL_UNRESTRICTED .. SANDBOX_LEVEL_QUARANTINE

\* A zero-filled sandbox_context_t; limits holds limits[0 .. limit_count-1].
ZeroSandbox ==
    [ sandbox_id |-> 0, module_id |-> 0, security_level |-> 0,
      active |-> FALSE, capabilities |-> {}, denied_capabilities |-> {},
      limits |-> << >>, violations |-> 0 ]

\* A zero-filled security_violation_t.
ZeroViolation ==
    [ violation_id |-> 0, module_id |-> 0, violation_type |-> 0,
      attempted_capability |-> {} ]

\* sandboxing_init_default_policies.
sandboxing_init_default_policies ==
    [ level \in SandboxLevels |->
        CASE level = SANDBOX_LEVEL_UNRESTRICTED -> CapBits
          [] level = SANDBOX_LEVEL_TRUSTED ->
                CAP_MEMORY_ALLOC \cup CAP_MEMORY_FREE \cup CAP_SCHEDULER_CREATE
                    \cup CAP_SCHEDULER_SIGNAL \cup CAP_MODULE_QUERY
                    \cup CAP_VGA_WRITE \cup CAP_VGA_CLEAR \cup CAP_TIMER_ACCESS
                    \cup CAP_AI_QUERY \cup CAP_DEBUG_ACCESS
          [] level = SANDBOX_LEVEL_USER ->
                CAP_MEMORY_ALLOC \cup CAP_MEMORY_FREE \cup CAP_SCHEDULER_SIGNAL
                    \cup CAP_MODULE_QUERY \cup CAP_VGA_WRITE
                    \cup CAP_TIMER_ACCESS \cup CAP_AI_QUERY
          [] level = SANDBOX_LEVEL_UNTRUSTED ->
                CAP_MEMORY_ALLOC \cup CAP_MEMORY_FREE \cup CAP_MODULE_QUERY
          [] OTHER -> CAP_MODULE_QUERY ]

\* sandboxing_init: the value of sandbox_system, with the flag
\* sandboxing_initialized beside it.
sandboxing_init ==
    [ initialized |-> TRUE,
      sandboxes |-> [i \in SandboxSlots |-> ZeroSandbox],
      sandbox_count |-> 0, next_sandbox_id |-> 1,
      default_capabilities |-> sandboxing_init_default_policies,
      strict_enforcement |-> TRUE, logging_enabled |-> TRUE,
      violations |-> [i \in ViolationSlots |-> ZeroViolation],
      violation_count |-> 0, violation_index |-> 0, next_violation_id |-> 1,
      total_violations |-> 0, quarantined_modules |-> 0 ]

\* sandboxing_find_sandbox_by_module: the first active slot of the module.
sandboxing_find_sandbox_by_module(s, module_id) ==
    IF ~s.initialized THEN NULL
    ELSE IF \E i \in SandboxSlots :
                s.sandboxes[i].active /\ s.sandboxes[i].module_id = module_id
    THEN CHOOSE i \in SandboxSlots :
             /\ s.sandboxes[i].active /\ s.sandboxes[i].module_id = module_id
             /\ \A j \in SandboxSlots :
                   j < i => ~(s.sandboxes[j].active
                              /\ s.sandboxes[j].module_id = module_id)
    ELSE NULL

\* The search of a resource type in limits[]: its first index, or 0.
LimitIndex(limits, resource_type) ==
    IF \E i \in 1 .. Len(limits) : limits[i].resource_type = resource_type
    THEN CHOOSE i \in 1 .. Len(limits) :
             /\ limits[i].resource_type = resource_type
             /\ \A j \in 1 .. (i - 1) : limits[j].resource_type # resource_type
    ELSE 0

\* sandboxing_set_resource_limit.
sandboxing_set_resource_limit(s, module_id, resource_type, limit) ==
    LET sandbox == sandboxing_find_sandbox_by_module(s, module_id) IN
    IF ~s.initialized THEN [s |-> s, ret |-> 0 - 1]
    ELSE IF sandbox = NULL THEN [s |-> s, ret |-> 0 - 2]
    ELSE IF resource_type >= MAX_RESOURCE_LIMITS THEN [s |-> s, ret |-> 0 - 3]
    ELSE
    LET limits == s.sandboxes[sandbox].limits
        found  == LimitIndex(limits, resource_type)
    IN
    IF found # 0
    THEN [s |-> [s EXCEPT !.sandboxes[sandbox].limits[found].limit = limit,
                          !.sandboxes[sandbox].limits[found].enforce = TRUE],
          ret |-> 0]
    ELSE IF Len(limits) < MAX_RESOURCE_LIMITS
    THEN [s |-> [s EXCEPT !.sandboxes[sandbox].limits =
                     Append(limits, [resource_type |-> resource_type,
                                     limit |-> limit, current_usage |-> 0,
                                     peak_usage |-> 0, enforce |-> TRUE])],
          ret |-> 0]
    ELSE [s |-> s, ret |-> 0 - 4]

\* A run of sandboxing_set_resource_limit calls, in order.
RECURSIVE SetLimits(_, _, _)
SetLimits(s, module_id, settings) ==
    IF settings = << >> THEN s
    ELSE SetLimits(sandboxing_set_resource_limit(
                       s, module_id, Head(settings)[1], Head(settings)[2]).s,
                   module_id, Tail(settings))

\* The default limits sandboxing_create_sandbox sets for a level.
DefaultLimits(security_level) ==
    CASE security_level = SANDBOX_LEVEL_TRUSTED ->
            << <<RESOURCE_MEMORY, 4 * 1024 * 1024>>, <<RESOURCE_CHILD_ACTORS, 10>>,
               <<RESOURCE_HEAP_ALLOCS, 1000>> >>
      [] security_level = SANDBOX_LEVEL_USER ->
            << <<RESOURCE_MEMORY, 2 * 1024 * 1024>>, <<RESOURCE_CHILD_ACTORS, 5>>,
               <<RESOURCE_HEAP_ALLOCS, 500>>, <<RESOURCE_MODULE_CALLS, 1000>> >>
      [] security_level = SANDBOX_LEVEL_UNTRUSTED ->
            << <<RESOURCE_MEMORY, 1 * 1024 * 1024>>, <<RESOURCE_CHILD_ACTORS, 2>>,
               <<RESOURCE_HEAP_ALLOCS, 100>>, <<RESOURCE_MODULE_CALLS, 500>>,
               <<RESOURCE_AI_QUERIES, 10>> >>
      [] security_level = SANDBOX_LEVEL_QUARANTINE ->
            << <<RESOURCE_MEMORY, 512 * 1024>>, <<RESOURCE_CHILD_ACTORS, 0>>,
               <<RESOURCE_HEAP_ALLOCS, 10>>, <<RESOURCE_MODULE_CALLS, 100>> >>
      [] OTHER -> << >>

\* The first inactive slot, or NULL.
FirstFreeSandbox(s) ==
    IF \E i \in SandboxSlots : ~s.sandboxes[i].active
    THEN CHOOSE i \in SandboxSlots :
             /\ ~s.sandboxes[i].active
             /\ \A j \in SandboxSlots : j < i => s.sandboxes[j].active
    ELSE NULL

\* sandboxing_create_sandbox without the test for a sandbox the module
\* already has.
sandboxing_create_sandbox_no_duplicate_test(s, module_id, security_level) ==
    IF ~s.initialized THEN [s |-> s, ret |-> 0 - 1]
    ELSE IF s.sandbox_count >= MAX_SANDBOXES THEN [s |-> s, ret |-> 0 - 2]
    ELSE IF security_level > SANDBOX_LEVEL_QUARANTINE
    THEN [s |-> s, ret |-> 0 - 3]
    ELSE
    LET sandbox == FirstFreeSandbox(s) IN
    IF sandbox = NULL THEN [s |-> s, ret |-> 0 - 5]
    ELSE
    LET s1 == [s EXCEPT
                 !.next_sandbox_id = @ + 1,
                 !.sandboxes[sandbox].sandbox_id = s.next_sandbox_id,
                 !.sandboxes[sandbox].module_id = module_id,
                 !.sandboxes[sandbox].security_level = security_level,
                 !.sandboxes[sandbox].active = TRUE,
                 !.sandboxes[sandbox].capabilities =
                     s.default_capabilities[security_level],
                 !.sandboxes[sandbox].denied_capabilities = {},
                 !.sandboxes[sandbox].limits = << >>]
        s2 == SetLimits(s1, module_id, DefaultLimits(security_level))
        s3 == [s2 EXCEPT !.sandboxes[sandbox].violations = 0,
                         !.sandbox_count = @ + 1]
    IN  [s |-> s3, ret |-> s.next_sandbox_id]

\* sandboxing_create_sandbox: the sandbox id, or a negative error.
sandboxing_create_sandbox(s, module_id, security_level) ==
    IF ~s.initialized THEN [s |-> s, ret |-> 0 - 1]
    ELSE IF s.sandbox_count >= MAX_SANDBOXES THEN [s |-> s, ret |-> 0 - 2]
    ELSE IF security_level > SANDBOX_LEVEL_QUARANTINE
    THEN [s |-> s, ret |-> 0 - 3]
    ELSE IF sandboxing_find_sandbox_by_module(s, module_id) # NULL
    THEN [s |-> s, ret |-> 0 - 4]
    ELSE
    LET sandbox == FirstFreeSandbox(s) IN
    IF sandbox = NULL THEN [s |-> s, ret |-> 0 - 5]
    ELSE
    LET s1 == [s EXCEPT
                 !.next_sandbox_id = @ + 1,
                 !.sandboxes[sandbox].sandbox_id = s.next_sandbox_id,
                 !.sandboxes[sandbox].module_id = module_id,
                 !.sandboxes[sandbox].security_level = security_level,
                 !.sandboxes[sandbox].active = TRUE,
                 !.sandboxes[sandbox].capabilities =
                     s.default_capabilities[security_level],
                 !.sandboxes[sandbox].denied_capabilities = {},
                 !.sandboxes[sandbox].limits = << >>]
        s2 == SetLimits(s1, module_id, DefaultLimits(security_level))
        s3 == [s2 EXCEPT !.sandboxes[sandbox].violations = 0,
                         !.sandbox_count = @ + 1]
    IN  [s |-> s3, ret |-> s.next_sandbox_id]

\* sandboxing_destroy_sandbox.
sandboxing_destroy_sandbox(s, sandbox_id) ==
    IF ~s.initialized THEN [s |-> s, ret |-> 0 - 1]
    ELSE IF \E i \in SandboxSlots :
                s.sandboxes[i].active /\ s.sandboxes[i].sandbox_id = sandbox_id
    THEN LET sandbox == CHOOSE i \in SandboxSlots :
                 /\ s.sandboxes[i].active
                 /\ s.sandboxes[i].sandbox_id = sandbox_id
                 /\ \A j \in SandboxSlots :
                       j < i => ~(s.sandboxes[j].active
                                  /\ s.sandboxes[j].sandbox_id = sandbox_id)
         IN  [s |-> [s EXCEPT !.sandboxes[sandbox].active = FALSE,
                              !.sandbox_count = @ - 1],
              ret |-> 0]
    ELSE [s |-> s, ret |-> 0 - 2]

\* sandboxing_log_violation counting every entry, without the test against
\* the size of the log.
sandboxing_log_violation_counts_all(s, module_id, violation_type, capability) ==
    IF ~s.logging_enabled THEN s
    ELSE [s EXCEPT
            !.violations[s.violation_index] =
                [ violation_id |-> s.next_violation_id,
                  module_id |-> module_id,
                  violation_type |-> violation_type,
                  attempted_capability |-> capability ],
            !.next_violation_id = @ + 1,
            !.violation_index = (@ + 1) % MAX_VIOLATION_LOG,
            !.violation_count = @ + 1,
            !.total_violations = @ + 1]

\* sandboxing_log_violation: one entry written at violation_index of the
\* ring (the description text is left out).
sandboxing_log_violation(s, module_id, violation_type, capability) ==
    IF ~s.logging_enabled THEN s
    ELSE [s EXCEPT
            !.violations[s.violation_index] =
                [ violation_id |-> s.next_violation_id,
                  module_id |-> module_id,
                  violation_type |-> violation_type,
                  attempted_capability |-> capability ],
            !.next_violation_id = @ + 1,
            !.violation_index = (@ + 1) % MAX_VIOLATION_LOG,
            !.violation_count =
                IF @ < MAX_VIOLATION_LOG THEN @ + 1 ELSE @,
            !.total_violations = @ + 1]

\* sandboxing_has_capability.  The check counters are left out.
sandboxing_has_capability(s, module_id, capability) ==
    LET sandbox == sandboxing_find_sandbox_by_module(s, module_id) IN
    IF ~s.initialized THEN [s |-> s, ret |-> TRUE]
    ELSE IF sandbox = NULL THEN [s |-> s, ret |-> TRUE]
    ELSE IF s.sandboxes[sandbox].denied_capabilities \cap capability # {}
    THEN [s |-> sandboxing_log_violation(s, module_id, VIOLATION_CAPABILITY,
                                         capability),
          ret |-> FALSE]
    ELSE IF s.sandboxes[sandbox].capabilities \cap capability # {}
    THEN [s |-> s, ret |-> TRUE]
    ELSE [s |-> sandboxing_log_violation(s, module_id, VIOLATION_CAPABILITY,
                                         capability),
          ret |-> FALSE]

\* sandboxing_grant_capability.
sandboxing_grant_capability(s, module_id, capability) ==
    LET sandbox == sandboxing_find_sandbox_by_module(s, module_id) IN
    IF ~s.initialized THEN [s |-> s, ret |-> 0 - 1]
    ELSE IF sandbox = NULL THEN [s |-> s, ret |-> 0 - 2]
    ELSE [s |-> [s EXCEPT
                   !.sandboxes[sandbox].denied_capabilities =
                       @ \cap (CapBits \ capability),
                   !.sandboxes[sandbox].capabilities = @ \cup capability],
          ret |-> 0]

\* sandboxing_revoke_capability with the two mask updates of
\* sandboxing_grant_capability.
sandboxing_revoke_capability_as_grant(s, module_id, capability) ==
    LET sandbox == sandboxing_find_sandbox_by_module(s, module_id) IN
    IF ~s.initialized THEN [s |-> s, ret |-> 0 - 1]
    ELSE IF sandbox = NULL THEN [s |-> s, ret |-> 0 - 2]
    ELSE [s |-> [s EXCEPT
                   !.sandboxes[sandbox].denied_capabilities =
                       @ \cap (CapBits \ capability),
                   !.sandboxes[sandbox].capabilities = @ \cup capability],
          ret |-> 0]

\* sandboxing_revoke_capability.
sandboxing_revoke_capability(s, module_id, capability) ==
    LET sandbox == sandboxing_find_sandbox_by_module(s, module_id) IN
    IF ~s.initialized THEN [s |-> s, ret |-> 0 - 1]
    ELSE IF sandbox = NULL THEN [s |-> s, ret |-> 0 - 2]
    ELSE [s |-> [s EXCEPT
                   !.sandboxes[sandbox].capabilities =
                       @ \cap (CapBits \ capability),
                   !.sandboxes[sandbox].denied_capabilities =
                       @ \cup capability],
          ret |-> 0]

\* sandboxing_set_capabilities.
sandboxing_set_capabilities(s, module_id, capabilities) ==
    LET sandbox == sandboxing_find_sandbox_by_module(s, module_id) IN
    IF ~s.initialized THEN [s |-> s, ret |-> 0 - 1]
    ELSE IF sandbox = NULL THEN [s |-> s, ret |-> 0 - 2]
    ELSE [s |-> [s EXCEPT
                   !.sandboxes[sandbox].capabilities = capabilities,
                   !.sandboxes[sandbox].denied_capabilities = {}],
          ret |-> 0]

\* sandboxing_check_resource_limit.
sandboxing_check_resource_limit(s, module_id, resource_type, requested) ==
    LET sandbox == sandboxing_find_sandbox_by_module(s, module_id) IN
    IF ~s.initialized THEN [s |-> s, ret |-> TRUE]
    ELSE IF sandbox = NULL THEN [s |-> s, ret |-> TRUE]
    ELSE
    LET limits == s.sandboxes[sandbox].limits
        found  == LimitIndex(limits, resource_type)
    IN
    IF found = 0 THEN [s |-> s, ret |-> TRUE]
    ELSE IF ~limits[found].enforce THEN [s |-> s, ret |-> TRUE]
    ELSE IF U32Greater(U32Add(limits[found].current_usage, requested),
                       limits[found].limit)
    THEN [s |-> sandboxing_log_violation(s, module_id, VIOLATION_RESOURCE,
                                         MaskOf(resource_type)),
          ret |-> FALSE]
    ELSE [s |-> s, ret |-> TRUE]

\* sandboxing_update_resource_usage.
sandboxing_update_resource_usage(s, module_id, resource_type, delta) ==
    LET sandbox == sandboxing_find_sandbox_by_module(s, module_id) IN
    IF ~s.initialized THEN [s |-> s, ret |-> 0]
    ELSE IF sandbox = NULL THEN [s |-> s, ret |-> 0]
    ELSE
    LET limits == s.sandboxes[sandbox].limits
        found  == LimitIndex(limits, resource_type)
    IN
    IF found = 0 THEN [s |-> s, ret |-> 0 - 1]
    ELSE
    LET usage == IF delta < 0 /\ (0 - delta) > limits[found].current_usage
                 THEN 0
                 ELSE limits[found].current_usage + delta
        peak  == IF usage > limits[found].peak_usage
                 THEN usage ELSE limits[found].peak_usage
    IN  [s |-> [s EXCEPT
                  !.sandboxes[sandbox].limits[found].current_usage = usage,
                  !.sandboxes[sandbox].limits[found].peak_usage = peak],
         ret |-> 0]

\* sandboxing_check_memory_access.  address says whether the pointer is
\* non-NULL.
sandboxing_check_memory_access(s, module_id, address, size, write) ==
    LET sandbox == sandboxing_find_sandbox_by_module(s, module_id) IN
    IF ~s.initialized THEN [s |-> s, ret |-> TRUE]
    ELSE IF sandbox = NULL THEN [s |-> s, ret |-> TRUE]
    ELSE
    LET required_cap == IF write THEN CAP_MEMORY_ALLOC ELSE CAP_MEMORY_ALLOC
        h == sandboxing_has_capability(s, module_id, required_cap)
    IN
    IF ~h.ret THEN [s |-> h.s, ret |-> FALSE]
    ELSE IF ~address \/ size = 0
    THEN [s |-> sandboxing_log_violation(h.s, module_id, VIOLATION_MEMORY, {}),
          ret |-> FALSE]
    ELSE [s |-> h.s, ret |-> TRUE]

\* A C string is the sequence of its characters before the terminator; a
\* function name argument is a NULL pointer or a string.
NullName == [ptr |-> FALSE]
Name(chars) == [ptr |-> TRUE, chars |-> chars]
restricted_funcs ==
    << <<"s", "y", "s", "t", "e", "m">>, <<"e", "x", "e", "c">>,
       <<"f", "o", "r", "k">>, <<"k", "i", "l", "l">>,
       <<"r", "e", "b", "o", "o", "t">>,
       <<"s", "h", "u", "t", "d", "o", "w", "n">> >>

\* The comparison loop of sandboxing_check_function_call: it stops at the
\* first terminator of either string.
RestrictedMatch(function_name, restricted) ==
    \A j \in 1 .. Len(function_name) :
        j <= Len(restricted) => function_name[j] = restricted[j]

\* sandboxing_check_function_call.  The call counter is left out.
sandboxing_check_function_call(s, module_id, function_name) ==
    LET sandbox == sandboxing_find_sandbox_by_module(s, module_id) IN
    IF ~s.initialized THEN [s |-> s, ret |-> TRUE]
    ELSE IF sandbox = NULL THEN [s |-> s, ret |-> TRUE]
    ELSE
    LET u == sandboxing_update_resource_usage(s, module_id,
                                              RESOURCE_MODULE_CALLS, 1)
        c == sandboxing_check_resource_limit(u.s, module_id,
                                             RESOURCE_MODULE_CALLS, 0)
    IN
    IF ~c.ret THEN [s |-> c.s, ret |-> FALSE]
    ELSE IF /\ function_name.ptr
            /\ \E i \in 1 .. Len(restricted_funcs) :
                  RestrictedMatch(function_name.chars, restricted_funcs[i])
    THEN [s |-> sandboxing_log_violation(c.s, module_id, VIOLATION_EXECUTION,
                                         {}),
          ret |-> FALSE]
    ELSE [s |-> c.s, ret |-> TRUE]

\* sandboxing_quarantine_module.
sandboxing_quarantine_module(s, module_id) ==
    LET sandbox == sandboxing_find_sandbox_by_module(s, module_id) IN
    IF ~s.initialized THEN [s |-> s, ret |-> 0 - 1]
    ELSE IF sandbox = NULL THEN [s |-> s, ret |-> 0 - 2]
    ELSE
    LET s1 == [s EXCEPT
                 !.sandboxes[sandbox].security_level = SANDBOX_LEVEL_QUARANTINE,
                 !.sandboxes[sandbox].capabilities =
                     s.default_capabilities[SANDBOX_LEVEL_QUARANTINE]]
        s2 == SetLimits(s1, module_id,
                        << <<RESOURCE_MEMORY, 256 * 1024>>,
                           <<RESOURCE_CHILD_ACTORS, 0>>,
                           <<RESOURCE_HEAP_ALLOCS, 1>>,
                           <<RESOURCE_MODULE_CALLS, 10>> >>)
    IN  [s |-> [s2 EXCEPT !.quarantined_modules = @ + 1], ret |-> 0]

\* sandboxing_handle_violation.
sandboxing_handle_violation(s, module_id, violation_type) ==
    LET sandbox == sandboxing_find_sandbox_by_module(s, module_id) IN
    IF ~s.initialized THEN [s |-> s, ret |-> 0 - 1]
    ELSE
    LET s1 == IF sandbox # NULL
              THEN [s EXCEPT !.sandboxes[sandbox].violations = @ + 1]
              ELSE s
        s2 == sandboxing_log_violation(s1, module_id, violation_type, {})
    IN
    IF /\ s2.strict_enforcement
       /\ violation_type \in {VIOLATION_CAPABILITY, VIOLATION_EXECUTION}
       /\ sandbox # NULL
       /\ s2.sandboxes[sandbox].violations > 5
    THEN [s |-> sandboxing_quarantine_module(s2, module_id).s, ret |-> 0]
    ELSE [s |-> s2, ret |-> 0]

\* sandboxing_enable_strict_mode.
sandboxing_enable_strict_mode(s, enabled) ==
    IF ~s.initialized THEN [s |-> s, ret |-> 0 - 1]
    ELSE [s |-> [s EXCEPT !.strict_enforcement = enabled], ret |-> 0]

\* --------------------------------------------------------------- actions
\* The state after scheduler_init.
SchedInit ==
    /\ actor_pool = scheduler_init.ap
    /\ actor_pool_used = scheduler_init.au
    /\ actors = scheduler_init.at
    /\ ready_queue = scheduler_init.rq
    /\ current_actor = scheduler_init.cur
    /\ scheduler_enabled = scheduler_init.en
    /\ message_pool = scheduler_init.mp
    /\ message_pool_used = scheduler_init.mu
    /\ messages_sent = scheduler_init.sent
    /\ messages_delivered = scheduler_init.deliv
    /\ actors_created = scheduler_init.created
    /\ current_timeslice = scheduler_init.slice
    /\ tick_count = scheduler_init.ticks
    /\ held = scheduler_init.held
    /\ hist = scheduler_init.hist
    /\ enqueue_clock = scheduler_init.clock
    /\ released_count = scheduler_init.rel

\* The inputs the actions draw from.
ActorIds == 0 .. MAX_ACTORS
\* A payload argument and a payload_size: no payload, a size without a
\* buffer, a buffer with size 0, a whole buffer, a prefix of a buffer.
Payloads ==
    { <<NullPayload, 0>>, <<NullPayload, 2>>, <<Buffer(<<7>>), 0>>,
      <<Buffer(<<7>>), 1>>, <<Buffer(<<7, 8>>), 1>>, <<Buffer(<<8, 7>>), 2>> }
MsgTypes == {MSG_TYPE_ASYNC, MSG_TYPE_SYSTEM}

SchedulerStart ==
    /\ Commit(scheduler_start(Kernel))

SchedulerSchedule ==
    /\ Commit(scheduler_schedule(Kernel))

SchedulerYield ==
    /\ Commit(scheduler_yield(Kernel))

SchedulerTimerHandler ==
    LET k == scheduler_timer_handler(Kernel)
    IN  /\ k.ticks <= MaxTicks
        /\ Commit(k)

ActorCreate(entry_point, priority, stack_size, kmalloc_ok, cap) ==
    LET r == actor_create(Kernel, entry_point, priority, stack_size, kmalloc_ok)
    IN  /\ r.k.created <= cap
        /\ Commit(r.k)

ActorStart(actor_id) ==
    LET r == actor_start(Kernel, actor_id)
    IN  /\ Commit(r.k)

ActorTerminate(actor_id) ==
    /\ Commit(actor_terminate(Kernel, actor_id))

MessageSendAsync(recipient_id, type, payload, payload_size, kmalloc_ok, cap) ==
    /\ LET r == message_send_async(Kernel, recipient_id, type, payload,
                                   payload_size, kmalloc_ok)
       IN  /\ r.k.sent <= cap
           /\ Commit(r.k)

MessageReceive ==
    LET r == message_receive(Kernel)
    IN  /\ Commit(r.k)

MessageWait(timeout_ms) ==
    LET r == message_wait(Kernel, timeout_ms)
    IN  /\ Commit(r.k)

\* The holder of a received message releases it after processing.
MessageFree(m) ==
    /\ m \in held
    /\ Commit([message_free(Kernel, m) EXCEPT !.held = @ \ {m}])

SchedOps ==
    \/ SchedulerStart
    \/ SchedulerSchedule
    \/ SchedulerYield

StackSizes == {4096, ACTOR_MEMORY_LIMIT + 4096}

ActorOps(cap) ==
    \/ \E kmalloc_ok \in BOOLEAN, stack_size \in StackSizes :
          ActorCreate(TRUE, ACTOR_PRIORITY_NORMAL, stack_size, kmalloc_ok, cap)
    \/ \E a \in ActorIds : ActorStart(a)
    \/ \E a \in ActorIds : ActorTerminate(a)

MailOps(cap, types, payloads) ==
    \/ \E a \in ActorIds, t \in types, p \in payloads, kmalloc_ok \in BOOLEAN :
          MessageSendAsync(a, t, p[1], p[2], kmalloc_ok, cap)
    \/ MessageReceive
    \/ MessageWait(0)
    \/ \E m \in MessageSlots : MessageFree(m)

\* The state after modules_init.
ModulesInit ==
    /\ module_pool = modules_init.mp
    /\ module_pool_used = modules_init.mu
    /\ loaded_modules = modules_init.head
    /\ module_count = modules_init.count
    /\ next_module_id = modules_init.next_id
    /\ total_memory_used = modules_init.mem
    /\ load_errors = modules_init.errs

\* Module images: a NULL pointer, or a header and its sections.  A name is
\* the characters before the terminator; one of MAX_MODULE_NAME characters
\* fills the header's array and has no terminator.
NullImage == [ptr |-> FALSE]
Image(magic, version, name, flags, bss_size, entry_point, exit_point) ==
    [ ptr |-> TRUE, magic |-> magic, version |-> version, name |-> name,
      flags |-> flags, code_size |-> 8, data_size |-> 4, bss_size |-> bss_size,
      entry_point |-> entry_point, exit_point |-> exit_point ]
ModuleNames == { <<1>>, <<2>>, [i \in 1 .. MAX_MODULE_NAME |-> 1] }
ModuleFlags ==
    { 0, MODULE_FLAG_CORE, MODULE_FLAG_AUTO_START,
      MODULE_FLAG_CORE + MODULE_FLAG_AUTO_START }
ValidImages ==
    { << Image(MODULE_MAGIC, MODULE_VERSION, n, f, 4, e[1], e[2]),
         MODULE_HEADER_SIZE + 12 >> :
        n \in ModuleNames, f \in ModuleFlags, e \in { <<0, 0>>, <<4, 6>> } }
InvalidImages ==
    { << NullImage, MODULE_HEADER_SIZE + 12 >>,
      << Image(MODULE_MAGIC, MODULE_VERSION, <<1>>, 0, 4, 0, 0), 0 >>,
      << Image(0, MODULE_VERSION, <<1>>, 0, 4, 0, 0), MODULE_HEADER_SIZE + 12 >>,
      << Image(MODULE_MAGIC, MODULE_VERSION + 1, <<1>>, 0, 4, 0, 0),
         MODULE_HEADER_SIZE + 12 >>,
      << Image(MODULE_MAGIC, MODULE_VERSION, <<1>>, 0, 4, 0, 0),
         MODULE_HEADER_SIZE + 11 >>,
      << Image(MODULE_MAGIC, MODULE_VERSION, <<1>>, 0, MAX_MODULE_SIZE + 1, 0, 0),
         MODULE_HEADER_SIZE + 12 >>,
      << [Image(MODULE_MAGIC, MODULE_VERSION, <<1>>, 0, 4, 0, 0)
             EXCEPT !.code_size = MAX_MODULE_SIZE + 1],
         MODULE_HEADER_SIZE + MAX_MODULE_SIZE + 5 >>,
      << [Image(MODULE_MAGIC, MODULE_VERSION, <<1>>, 0, 4, 0, 0)
             EXCEPT !.data_size = MAX_MODULE_SIZE + 1],
         MODULE_HEADER_SIZE + MAX_MODULE_SIZE + 9 >> }
ModuleIds == 0 .. (MaxModuleIds + 1)

ModuleLoad(module_data, size, kmalloc_ok, init_result) ==
    LET l == module_load(Registry, module_data, size, kmalloc_ok, init_result)
    IN  /\ l.r.next_id <= MaxModuleIds + 1
        /\ l.r.errs <= MaxLoadErrors
        /\ ModCommit(l.r)

ModuleUnload(module_id) ==
    /\ ModCommit(module_unload(Registry, module_id).r)

ModuleStart(module_id, init_result) ==
    /\ ModCommit(module_start(Registry, module_id, init_result).r)

ModuleStop(module_id) ==
    /\ ModCommit(module_stop(Registry, module_id).r)

\* The inputs of the sandboxing actions.
SandboxModuleIds == 1 .. 2
CapMasks ==
    { CAP_FILESYSTEM_WRITE, CAP_MODULE_QUERY,
      CAP_MEMORY_ALLOC \cup CAP_FILESYSTEM_WRITE }
ChangedMasks ==
    { CAP_FILESYSTEM_WRITE, CAP_MEMORY_ALLOC \cup CAP_FILESYSTEM_WRITE }
FunctionNames ==
    { NullName, Name(<< >>), Name(<<"f", "o", "r", "k">>),
      Name(<<"f", "s", "_", "w", "r", "i", "t", "e">>) }

SandCommit(s) ==
    /\ sandbox_system' = s
    /\ UNCHANGED << schedVars, modVars >>

\* The counters of s within the caps: violations logged, sandbox ids
\* handed out, quarantines, and the usage of every limit.
Within(s, vcap) ==
    /\ s.total_violations <= vcap
    /\ s.next_sandbox_id <= MaxSandboxIds + 1
    /\ s.quarantined_modules <= MaxQuarantines
    /\ \A i \in SandboxSlots :
          \A j \in 1 .. Len(s.sandboxes[i].limits) :
              s.sandboxes[i].limits[j].current_usage <= MaxUsage

CreateSandbox(module_id, security_level, vcap) ==
    LET r == sandboxing_create_sandbox(sandbox_system, module_id,
                                       security_level)
    IN  Within(r.s, vcap) /\ SandCommit(r.s)

DestroySandbox(sandbox_id) ==
    /\ SandCommit(sandboxing_destroy_sandbox(sandbox_system, sandbox_id).s)

HasCapability(module_id, capability, vcap) ==
    LET r == sandboxing_has_capability(sandbox_system, module_id, capability)
    IN  Within(r.s, vcap) /\ SandCommit(r.s)

GrantCapability(module_id, capability) ==
    /\ SandCommit(sandboxing_grant_capability(sandbox_system, module_id,
                                              capability).s)

RevokeCapability(module_id, capability) ==
    /\ SandCommit(sandboxing_revoke_capability(sandbox_system, module_id,
                                               capability).s)

SetCapabilities(module_id, capabilities) ==
    /\ SandCommit(sandboxing_set_capabilities(sandbox_system, module_id,
                                              capabilities).s)

SetResourceLimit(module_id, resource_type, limit) ==
    /\ SandCommit(sandboxing_set_resource_limit(sandbox_system, module_id,
                                                resource_type, limit).s)

UpdateResourceUsage(module_id, resource_type, delta, vcap) ==
    LET r == sandboxing_update_resource_usage(sandbox_system, module_id,
                                              resource_type, delta)
    IN  Within(r.s, vcap) /\ SandCommit(r.s)

CheckMemoryAccess(module_id, address, size, write, vcap) ==
    LET r == sandboxing_check_memory_access(sandbox_system, module_id,
                                            address, size, write)
    IN  Within(r.s, vcap) /\ SandCommit(r.s)

CheckFunctionCall(module_id, function_name, vcap) ==
    LET r == sandboxing_check_function_call(sandbox_system, module_id,
                                            function_name)
    IN  Within(r.s, vcap) /\ SandCommit(r.s)

HandleViolation(module_id, violation_type, vcap) ==
    LET r == sandboxing_handle_violation(sandbox_system, module_id,
                                         violation_type)
    IN  Within(r.s, vcap) /\ SandCommit(r.s)

QuarantineModule(module_id, vcap) ==
    LET r == sandboxing_quarantine_module(sandbox_system, module_id)
    IN  Within(r.s, vcap) /\ SandCommit(r.s)

EnableStrictMode(enabled) ==
    /\ SandCommit(sandboxing_enable_strict_mode(sandbox_system, enabled).s)

\* The state after sandboxing_init.
SandboxingInit ==
    /\ sandbox_system = sandboxing_init

vars == << schedVars, modVars, sandVars >>

Init == SchedInit /\ ModulesInit /\ SandboxingInit

\* Scheduling with one kind of message.
Next ==
    \/ SchedOps
    \/ ActorOps(MaxCreates)
    \/ MailOps(SchedSends, {MSG_TYPE_ASYNC}, {<<Buffer(<<7>>), 1>>})
Spec == Init /\ [][Next]_vars

\* Scheduling under the timer: ticks, yields, waits, and actors that come
\* and go.
TickNext ==
    \/ SchedOps
    \/ SchedulerTimerHandler
    \/ ActorOps(TickCreates)
    \/ MessageWait(0)
TickSpec == Init /\ [][TickNext]_vars

\* Mailboxes: the current actor changes by scheduler_start only.
MailNext ==
    \/ SchedulerStart
    \/ ActorOps(MailCreates)
    \/ MailOps(MaxSends, {MSG_TYPE_ASYNC}, {<<Buffer(<<7>>), 1>>})
MailSpec == Init /\ [][MailNext]_vars

\* Mailboxes with both message types.
TypedNext ==
    \/ SchedulerStart
    \/ ActorOps(MailCreates)
    \/ MailOps(TypedSends, MsgTypes, {<<Buffer(<<7>>), 1>>})
TypedSpec == Init /\ [][TypedNext]_vars

\* Payloads: every kind of payload argument, both message types.
PayloadNext ==
    \/ SchedulerStart
    \/ ActorOps(MailCreates)
    \/ MailOps(PayloadSends, MsgTypes, Payloads)
PayloadSpec == Init /\ [][PayloadNext]_vars

\* The module registry.
ModNext ==
    \/ \E image \in ValidImages \cup InvalidImages, kmalloc_ok \in BOOLEAN,
          init_result \in {0, 1} :
          ModuleLoad(image[1], image[2], kmalloc_ok, init_result)
    \/ \E id \in ModuleIds : ModuleUnload(id)
    \/ \E id \in ModuleIds, init_result \in {0, 1} : ModuleStart(id, init_result)
    \/ \E id \in ModuleIds : ModuleStop(id)
ModSpec == Init /\ [][ModNext]_vars

\* The sandboxes: capability checks and the calls that change the masks.
SandboxNext ==
    \/ \E m \in SandboxModuleIds,
          l \in {SANDBOX_LEVEL_USER, SANDBOX_LEVEL_QUARANTINE + 1} :
          CreateSandbox(m, l, CheckViolations)
    \/ \E id \in 1 .. MaxSandboxIds : DestroySandbox(id)
    \/ \E m \in SandboxModuleIds, c \in CapMasks :
          HasCapability(m, c, CheckViolations)
    \/ \E m \in SandboxModuleIds, c \in ChangedMasks : GrantCapability(m, c)
    \/ \E m \in SandboxModuleIds, c \in ChangedMasks : RevokeCapability(m, c)
    \/ \E m \in SandboxModuleIds : SetResourceLimit(m, RESOURCE_MODULE_CALLS, 0)
    \/ \E m \in SandboxModuleIds, address \in BOOLEAN, size \in {0, 4},
          write \in BOOLEAN :
          CheckMemoryAccess(m, address, size, write, CheckViolations)
    \/ \E m \in SandboxModuleIds, f \in FunctionNames :
          CheckFunctionCall(m, f, CheckViolations)
SandboxSpec == Init /\ [][SandboxNext]_vars

\* Violations and quarantine of one module.
QuarantineNext ==
    \/ CreateSandbox(1, SANDBOX_LEVEL_USER, MaxViolations)
    \/ HasCapability(1, CAP_FILESYSTEM_WRITE, MaxViolations)
    \/ HandleViolation(1, VIOLATION_CAPABILITY, MaxViolations)
    \/ QuarantineModule(1, MaxViolations)
    \/ GrantCapability(1, CAP_FILESYSTEM_WRITE)
    \/ RevokeCapability(1, CAP_FILESYSTEM_WRITE)
    \/ SetCapabilities(1, CAP_FILESYSTEM_WRITE)
    \/ SetResourceLimit(1, RESOURCE_MEMORY, 1024 * 1024)
    \/ \E delta \in {1, 0 - 1} :
          UpdateResourceUsage(1, RESOURCE_MODULE_CALLS, delta, MaxViolations)
    \/ \E enabled \in BOOLEAN : EnableStrictMode(enabled)
QuarantineSpec == Init /\ [][QuarantineNext]_vars

\* ------------------------------------------------------------ properties
\* The message slots linked in the mailbox of the actor in slot a.
QueueSet(a) ==
    {actor_pool[a].message_queue[i] : i \in 1 .. Len(actor_pool[a].message_queue)}

Pending == UNION {QueueSet(a) : a \in ActorSlots}

RECURSIVE PendingCount(_)
PendingCount(S) ==
    IF S = {} THEN 0
    ELSE LET a == CHOOSE x \in S : TRUE
         IN  Len(actor_pool[a].message_queue) + PendingCount(S \ {a})

\* The limit actor_create and actor_create_kernel_actor give a mailbox.
QueueLimit(a) == IF a = 0 THEN KERNEL_QUEUE_LIMIT ELSE ACTOR_QUEUE_LIMIT

\* C1: in every reachable state the number of messages in each actor's
\* mailbox (queue_size, which is the length of the linked list) is at most
\* max_queue_size, and max_queue_size is the spawned-actor limit for a
\* spawned actor and the kernel limit for the kernel actor.
MailboxWithinCapacity ==
    \A a \in ActorSlots :
        /\ actor_pool[a].queue_size <= actor_pool[a].max_queue_size
        /\ actor_pool[a].queue_size = Len(actor_pool[a].message_queue)
        /\ actors[a] => actor_pool[a].max_queue_size = QueueLimit(a)

\* C1's case: a spawned actor's mailbox is at its limit after sends and a
\* receive.
MailboxAtCapacity ==
    \E a \in ActorSlots :
        /\ a >= 1 /\ actors[a]
        /\ actor_pool[a].queue_size = ACTOR_QUEUE_LIMIT
        /\ messages_delivered >= 1

DeliveredOrReleasedOnce ==
    /\ \A a \in ActorSlots :
          /\ Cardinality(QueueSet(a)) = Len(actor_pool[a].message_queue)
          /\ \A m \in QueueSet(a) : message_pool[m].recipient_id = a
    /\ \A a, b \in ActorSlots : a # b => QueueSet(a) \cap QueueSet(b) = {}
    /\ held \cap Pending = {}
    /\ \A m \in MessageSlots : message_pool_used[m] <=> m \in (Pending \cup held)
    /\ enqueue_clock =
          PendingCount(ActorSlots) + messages_delivered + released_count

\* C3's case: a message has been delivered, another has been released by a
\* termination, and a third is still pending.
DeliveredAndReleased ==
    /\ messages_delivered >= 1
    /\ released_count >= 1
    /\ Pending # {}

\* C4: every mailbox holds its messages in the order of their enqueues, and
\* a message a receive has returned was enqueued before every message still
\* pending for the same recipient.
MailboxFifo ==
    /\ \A a \in ActorSlots :
          \A i, j \in 1 .. Len(actor_pool[a].message_queue) :
              i < j => hist[actor_pool[a].message_queue[i]].order
                         < hist[actor_pool[a].message_queue[j]].order
    /\ \A m \in held :
          \A n \in Pending :
              message_pool[n].recipient_id = message_pool[m].recipient_id
                  => hist[m].order < hist[n].order

\* C4's case: two messages of different types from different senders were
\* enqueued in one mailbox; the first has been received, the second is
\* pending.
EarlierReceivedLaterPending ==
    \E m \in held, n \in Pending :
        /\ message_pool[n].recipient_id = message_pool[m].recipient_id
        /\ message_pool[n].type # message_pool[m].type
        /\ message_pool[n].sender_id # message_pool[m].sender_id

\* A mailbox at its limit, and one message short of it.
Full(a) == actor_pool[a].queue_size = actor_pool[a].max_queue_size
OneShort(a) == actor_pool[a].queue_size + 1 = actor_pool[a].max_queue_size

\* C5: in every reachable state, for every registered actor and every
\* payload (a message slot being free and the payload allocation
\* succeeding): a send to a mailbox at its limit fails and changes nothing;
\* a send to a mailbox one short of its limit succeeds and fills it; and when
\* the owner of a full mailbox is current, a send made after one receive
\* succeeds.
BackPressureBoundary ==
    \A a \in ActorSlots, p \in Payloads :
        actors[a] =>
            LET send == message_send_async(Kernel, a, MSG_TYPE_ASYNC,
                                           p[1], p[2], TRUE)
                received == message_receive(Kernel)
                again == message_send_async(received.k, a, MSG_TYPE_ASYNC,
                                            p[1], p[2], TRUE)
            IN  /\ Full(a) => ~send.ok /\ send.k = Kernel
                /\ (OneShort(a) /\ FirstFreeMessage(Kernel) # NULL)
                       => send.ok /\ send.k.ap[a].queue_size
                                       = actor_pool[a].max_queue_size
                /\ (Full(a) /\ current_actor = a
                          /\ FirstFreeMessage(Kernel) # NULL)
                       => received.m # NULL /\ again.ok

\* C5's case: the owner of a full mailbox is current and a message slot is
\* free: a send is refused, and accepted after the owner's receive.
FullMailboxOwnerCurrent ==
    \E a \in ActorSlots :
        /\ a >= 1 /\ actors[a] /\ Full(a) /\ current_actor = a
        /\ FirstFreeMessage(Kernel) # NULL
        /\ ~message_send_async(Kernel, a, MSG_TYPE_ASYNC,
                               Buffer(<<7>>), 1, TRUE).ok
        /\ message_send_async(message_receive(Kernel).k, a, MSG_TYPE_ASYNC,
                              Buffer(<<7>>), 1, TRUE).ok

\* Whether the actor in slot a is reached from the head `from` of the ready
\* queue by at most `fuel` next links.
RECURSIVE Linked(_, _, _)
Linked(a, from, fuel) ==
    IF from = NULL \/ fuel = 0 THEN FALSE
    ELSE from = a \/ Linked(a, actor_pool[from].next, fuel - 1)

InReadyQueue(a) == Linked(a, ready_queue, MAX_ACTORS)

\* C6: a registered actor is linked in the ready queue exactly when its
\* state is Ready.
ReadyIffQueued ==
    \A a \in ActorSlots :
        actors[a] =>
            (InReadyQueue(a) <=> actor_pool[a].state = ACTOR_STATE_READY)

\* The current actor is registered and Running, and is the only Running one.
CurrentIsRunning ==
    /\ current_actor # NULL
    /\ actors[current_actor]
    /\ \A a \in ActorSlots :
          actor_pool[a].state = ACTOR_STATE_RUNNING <=> a = current_actor

\* C7: every step of scheduler_yield, scheduler_schedule, the timer handler
\* or message_wait ends in a state whose current actor is registered and is
\* the one Running actor.
RunningAfterScheduling ==
    [][(SchedulerYield \/ SchedulerSchedule \/ SchedulerTimerHandler
           \/ MessageWait(0)) => CurrentIsRunning']_vars

\* C8: whenever a Running current actor with an empty mailbox waits while
\* another actor is Ready, and a send to the waiter then succeeds, the waiter
\* is Ready and linked in the ready queue, the next scheduling dispatches
\* it, and the wait has returned the message sent.
WaitReturnsSentMessage ==
    \A a, b \in ActorSlots :
        ( /\ a # b /\ actors[a] /\ actors[b]
          /\ current_actor = a
          /\ actor_pool[a].state = ACTOR_STATE_RUNNING
          /\ actor_pool[a].message_queue = << >>
          /\ actor_pool[b].state = ACTOR_STATE_READY )
        => LET wait == message_wait(Kernel, 0)
               send == message_send_async(wait.k, a, MSG_TYPE_ASYNC,
                                          Buffer(<<7>>), 1, TRUE)
               sent == send.k.ap[a].message_queue[Len(send.k.ap[a].message_queue)]
               then == scheduler_schedule(send.k)
           IN  (wait.blocked /\ send.ok)
                   => /\ send.k.ap[a].state = ACTOR_STATE_READY
                      /\ Linked(a, send.k.rq, MAX_ACTORS)
                      /\ then.cur = a
                      /\ then.ap[a].state = ACTOR_STATE_RUNNING
                      /\ wait.m = sent

\* C9: a message a receive has returned has the payload_size its send was
\* given, holds the first payload_size bytes of the buffer its send was given
\* (no buffer when the send was given none, or size 0), and has as sender_id
\* the actor that was current at the send.
ReceivedAsSent ==
    \A m \in held :
        /\ message_pool[m].payload_size = hist[m].given_size
        /\ message_pool[m].payload =
              IF hist[m].given_payload.ptr /\ hist[m].given_size > 0
              THEN Buffer(SubSeq(hist[m].given_payload.bytes, 1,
                                 hist[m].given_size))
              ELSE NullPayload
        /\ message_pool[m].sender_id = hist[m].given_sender

\* C9's case: a spawned actor sent a prefix of a buffer, and the message
\* has been received.
PrefixReceived ==
    \E m \in held :
        /\ hist[m].given_payload = Buffer(<<7, 8>>)
        /\ hist[m].given_size = 1
        /\ message_pool[m].payload = Buffer(<<7>>)
        /\ message_pool[m].sender_id >= 1

\* Whether the module_t in slot i is on the loaded list.
Listed(i) == module_get(Registry, module_pool[i].module_id) = i

\* C10: no module_t with the Core flag or a dependent is in state
\* Unloading, and module_unload of a listed module that has the Core flag,
\* or that is given a dependent, returns failure and leaves the registry
\* (state, image, list) as it was.
ProtectedNeverUnloading ==
    /\ \A i \in ModuleSlots :
          (\/ HasFlag(module_pool[i].flags, MODULE_FLAG_CORE)
           \/ module_pool[i].dependent_count > 0)
              => module_pool[i].state # MODULE_STATE_UNLOADING
    /\ \A i \in ModuleSlots :
          (Listed(i) /\ HasFlag(module_pool[i].flags, MODULE_FLAG_CORE))
              => LET u == module_unload(Registry, module_pool[i].module_id)
                 IN  ~u.ok /\ u.r = Registry
    /\ \A i \in ModuleSlots :
          Listed(i)
              => LET depended == [Registry EXCEPT !.mp[i].dependent_count = 1]
                     u == module_unload(depended, module_pool[i].module_id)
                 IN  ~u.ok /\ u.r = depended

\* C10's case: a Core module is loaded and has been started, and an unload
\* of another module has left that module_t in state Unloading.
CoreLoadedOtherUnloaded ==
    \E i, j \in ModuleSlots :
        /\ i # j
        /\ Listed(i)
        /\ HasFlag(module_pool[i].flags, MODULE_FLAG_CORE)
        /\ module_pool[i].state = MODULE_STATE_RUNNING
        /\ module_pool[j].state = MODULE_STATE_UNLOADING

\* C11: no two module_t on the loaded list have the same stored name.
UniqueStoredNames ==
    \A i, j \in ModuleSlots :
        (i # j /\ Listed(i) /\ Listed(j))
            => module_pool[i].name # module_pool[j].name

\* C12: module_load of an image that fails validation (wrong magic, wrong
\* format version, a section above MAX_MODULE_SIZE, a buffer shorter than
\* header + code + data), or of a NULL or empty buffer, returns 0 and
\* leaves the loaded list, the module count, the pool, the id counter and
\* total_memory_used as they were, whatever the registry holds.
ValidationFailureUnwinds ==
    \A image \in InvalidImages, kmalloc_ok \in BOOLEAN, init_result \in {0, 1} :
        LET l == module_load(Registry, image[1], image[2], kmalloc_ok,
                             init_result)
        IN  /\ l.id = 0
            /\ [l.r EXCEPT !.errs = Registry.errs] = Registry

\* C12's case: one module is registered (the only id handed out) and one
\* load has failed; with a single id used and a single module listed, the
\* failure is one of validation.
FailedValidationWithModuleLoaded ==
    /\ load_errors = 1
    /\ module_count = 1
    /\ next_module_id = 2
    /\ total_memory_used > 0
    /\ \E i \in ModuleSlots : Listed(i)

\* C14: a module_load of an AutoStart image whose init function returns
\* non-zero returns 0, and leaves the module neither registered under its
\* id nor findable by its name, with its pool slot free.
AutoStartFailureUnwinds ==
    \A image \in ValidImages :
        (/\ HasFlag(image[1].flags, MODULE_FLAG_AUTO_START)
         /\ image[1].entry_point # 0
         /\ module_find_by_name(Registry, image[1].name) = NULL
         /\ FirstFreeModule(Registry) # NULL)
            => LET l == module_load(Registry, image[1], image[2], TRUE, 1)
               IN  /\ l.id = 0
                   /\ module_get(l.r, Registry.next_id) = NULL
                   /\ module_find_by_name(l.r, image[1].name) = NULL
                   /\ l.r.mu = Registry.mu

\* C13: every module_t on the loaded list in state Loaded or Running has
\* an active sandbox whose module_id is the module's id.
LoadedModulesSandboxed ==
    \A i \in ModuleSlots :
        (/\ Listed(i)
         /\ module_pool[i].state \in {MODULE_STATE_LOADED, MODULE_STATE_RUNNING})
            => sandboxing_find_sandbox_by_module(
                   sandbox_system, module_pool[i].module_id) # NULL

\* The effective capabilities of the sandbox in slot i: granted and not
\* denied.
Effective(s, i) ==
    s.sandboxes[i].capabilities \ s.sandboxes[i].denied_capabilities

\* C15: for a module that has a sandbox and any capability mask,
\* sandboxing_has_capability returns true exactly when every bit of the
\* mask is granted and not denied, and a false result comes with exactly
\* one new log entry, of kind Capability, for that module and mask.
HasCapabilityIffAllBits ==
    \A m \in SandboxModuleIds, c \in CapMasks :
        LET i == sandboxing_find_sandbox_by_module(sandbox_system, m)
            r == sandboxing_has_capability(sandbox_system, m, c)
        IN  i # NULL =>
              /\ r.ret <=> (c \subseteq Effective(sandbox_system, i))
              /\ ~r.ret =>
                    /\ r.s.total_violations = sandbox_system.total_violations + 1
                    /\ r.s.violations[sandbox_system.violation_index]
                           = [ violation_id |-> sandbox_system.next_violation_id,
                               module_id |-> m,
                               violation_type |-> VIOLATION_CAPABILITY,
                               attempted_capability |-> c ]

\* C16: for a module that has a sandbox, each sandbox check answers
\* 'allowed' only if the effective capabilities (granted and not denied)
\* include every capability the operation requires: the mask asked of
\* sandboxing_has_capability, MemoryAlloc for a memory access, FsWrite for
\* a call of "fs_write".
ChecksAllowOnlyEffective ==
    \A m \in SandboxModuleIds :
        LET i == sandboxing_find_sandbox_by_module(sandbox_system, m) IN
        i # NULL =>
          /\ \A c \in CapMasks :
                sandboxing_has_capability(sandbox_system, m, c).ret
                    => c \subseteq Effective(sandbox_system, i)
          /\ \A address \in BOOLEAN, size \in {0, 4}, write \in BOOLEAN :
                sandboxing_check_memory_access(sandbox_system, m, address,
                                               size, write).ret
                    => CAP_MEMORY_ALLOC \subseteq Effective(sandbox_system, i)
          /\ sandboxing_check_function_call(
                 sandbox_system, m,
                 Name(<<"f", "s", "_", "w", "r", "i", "t", "e">>)).ret
                    => CAP_FILESYSTEM_WRITE \subseteq Effective(sandbox_system, i)

\* C17: for a module that has a sandbox, in any state of it, and any mask
\* c: after grant(c) then revoke(c) sandboxing_has_capability(c) returns
\* false, and a second grant(c) leaves the granted and denied masks of the
\* first grant(c) as they are.
GrantRevokeAlgebra ==
    \A m \in SandboxModuleIds, c \in CapMasks \cup {{}} :
        LET i  == sandboxing_find_sandbox_by_module(sandbox_system, m)
            g  == sandboxing_grant_capability(sandbox_system, m, c).s
            gr == sandboxing_revoke_capability(g, m, c).s
            gg == sandboxing_grant_capability(g, m, c).s
        IN  i # NULL =>
              /\ ~sandboxing_has_capability(gr, m, c).ret
              /\ gg.sandboxes[i].capabilities = g.sandboxes[i].capabilities
              /\ gg.sandboxes[i].denied_capabilities
                     = g.sandboxes[i].denied_capabilities
              /\ c \subseteq g.sandboxes[i].capabilities
              /\ g.sandboxes[i].denied_capabilities \cap c = {}

\* C17's case: a grant has acted on one sandbox (FsWrite, which no User
\* default holds, is granted) and a revoke on another (FsWrite is denied
\* and not granted).
GrantedAndRevoked ==
    \E i, j \in SandboxSlots :
        /\ sandbox_system.sandboxes[i].active
        /\ sandbox_system.sandboxes[j].active
        /\ CAP_FILESYSTEM_WRITE \subseteq sandbox_system.sandboxes[i].capabilities
        /\ sandbox_system.sandboxes[i].denied_capabilities = {}
        /\ CAP_FILESYSTEM_WRITE
               \subseteq sandbox_system.sandboxes[j].denied_capabilities
        /\ sandbox_system.sandboxes[j].capabilities \cap CAP_FILESYSTEM_WRITE = {}

\* C18: for a module whose sandbox is at User level and in which FsWrite
\* is not effective, sandboxing_check_function_call of "fs_write" returns
\* false and adds exactly one entry to the violation log, of kind
\* Capability and for that module.
FsWriteCallDenied ==
    \A m \in SandboxModuleIds :
        LET i == sandboxing_find_sandbox_by_module(sandbox_system, m)
            r == sandboxing_check_function_call(
                     sandbox_system, m,
                     Name(<<"f", "s", "_", "w", "r", "i", "t", "e">>))
        IN  (/\ i # NULL
             /\ sandbox_system.sandboxes[i].security_level = SANDBOX_LEVEL_USER
             /\ Effective(sandbox_system, i) \cap CAP_FILESYSTEM_WRITE = {})
              => /\ ~r.ret
                 /\ r.s.total_violations = sandbox_system.total_violations + 1
                 /\ r.s.violations[sandbox_system.violation_index].module_id = m
                 /\ r.s.violations[sandbox_system.violation_index].violation_type
                        = VIOLATION_CAPABILITY

\* n calls of sandboxing_has_capability(module_id, capability) in a row.
RECURSIVE RepeatedChecks(_, _, _, _)
RepeatedChecks(s, module_id, capability, n) ==
    IF n = 0 THEN s
    ELSE RepeatedChecks(
             sandboxing_has_capability(s, module_id, capability).s,
             module_id, capability, n - 1)

\* The limit of a resource type in the sandbox of slot i, NULL if none.
LimitOf(s, i, resource_type) ==
    LET found == LimitIndex(s.sandboxes[i].limits, resource_type) IN
    IF found = 0 THEN NULL ELSE s.sandboxes[i].limits[found].limit

\* C19: with strict enforcement on, for a module whose sandbox is at User
\* level and has no violation yet, six failed capability checks (FsWrite,
\* which the module lacks) leave the sandbox at level Quarantine with
\* granted capabilities {ModuleQuery} and a Memory limit of at most
\* 512 KiB, and one more quarantine counted.
SixthFailedCheckQuarantines ==
    LET i == sandboxing_find_sandbox_by_module(sandbox_system, 1)
        s6 == RepeatedChecks(sandbox_system, 1, CAP_FILESYSTEM_WRITE, 6)
    IN  (/\ i # NULL
         /\ sandbox_system.strict_enforcement
         /\ sandbox_system.sandboxes[i].security_level = SANDBOX_LEVEL_USER
         /\ sandbox_system.sandboxes[i].violations = 0
         /\ Effective(sandbox_system, i) \cap CAP_FILESYSTEM_WRITE = {})
          => /\ s6.total_violations = sandbox_system.total_violations + 6
             /\ s6.sandboxes[i].security_level = SANDBOX_LEVEL_QUARANTINE
             /\ s6.sandboxes[i].capabilities = CAP_MODULE_QUERY
             /\ LimitOf(s6, i, RESOURCE_MEMORY) # NULL
             /\ LimitOf(s6, i, RESOURCE_MEMORY) <= 512 * 1024
             /\ s6.quarantined_modules = sandbox_system.quarantined_modules + 1

\* C20: once a sandbox is at level Quarantine, no step of the capability,
\* violation, limit and usage calls (none of which names a privileged
\* caller) takes it to another level or leaves it with an effective
\* capability outside {ModuleQuery}.
QuarantineIsSink ==
    [][\A i \in SandboxSlots :
          (/\ sandbox_system.sandboxes[i].active
           /\ sandbox_system.sandboxes[i].security_level
                  = SANDBOX_LEVEL_QUARANTINE)
            => /\ sandbox_system'.sandboxes[i].security_level
                      = SANDBOX_LEVEL_QUARANTINE
               /\ Effective(sandbox_system', i) \subseteq CAP_MODULE_QUERY]_vars

\* uint32 values at the edges of the range: 0, 1, 2^31 - 1, 2^31, 2^32 - 1.
U32Samples == {0, 1, 2147483647, (0 - 2147483647) - 1, 0 - 1}

\* used + delta <= limit over the integers, for uint32 operands: the sum
\* has no carry out of 32 bits and is not above the limit.
FitsWithoutWrap(used, delta, limit) ==
    /\ (U32Hi(used) + U32Hi(delta)
            + ((U32Lo(used) + U32Lo(delta)) \div 65536)) < 65536
    /\ ~U32Greater(U32Add(used, delta), limit)

\* C21: for an enforced limit of a sandboxed module, with any uint32
\* usage, request and limit, sandboxing_check_resource_limit returns true
\* exactly when usage + request <= limit over the integers; a false
\* result logs exactly one violation, of kind Resource, and leaves the
\* sandboxes (the usage among them) as they were.
LimitCheckWithoutWrap ==
    \A m \in SandboxModuleIds, used \in U32Samples, delta \in U32Samples,
          limit \in U32Samples :
        LET i == sandboxing_find_sandbox_by_module(sandbox_system, m)
            found == LimitIndex(sandbox_system.sandboxes[i].limits,
                                RESOURCE_MODULE_CALLS)
            s == [sandbox_system EXCEPT
                    !.sandboxes[i].limits[found].current_usage = used,
                    !.sandboxes[i].limits[found].limit = limit]
            r == sandboxing_check_resource_limit(s, m, RESOURCE_MODULE_CALLS,
                                                 delta)
        IN  (i # NULL /\ found # 0) =>
              /\ r.ret <=> FitsWithoutWrap(used, delta, limit)
              /\ ~r.ret =>
                    /\ r.s.total_violations = s.total_violations + 1
                    /\ r.s.violations[s.violation_index].violation_type
                           = VIOLATION_RESOURCE
                    /\ r.s.violations[s.violation_index].module_id = m
                    /\ r.s.sandboxes = s.sandboxes

\* C22: message_wait with timeout 0 on an empty mailbox returns at once with
\* no message: the caller is not moved to Blocked, nothing is yielded and the
\* current actor is the same, so the call leaves the kernel as it was.
ZeroTimeoutWaitReturnsAtOnce ==
    (current_actor # NULL /\ actor_pool[current_actor].message_queue = << >>)
    => LET wait == message_wait(Kernel, 0)
       IN  /\ wait.m = NULL
           /\ wait.k.ap[current_actor].state # ACTOR_STATE_BLOCKED
           /\ wait.k.ap[current_actor].state = actor_pool[current_actor].state
           /\ wait.k.cur = current_actor
           /\ wait.k.rq = ready_queue
           /\ wait.k = Kernel

\* C23: whenever the scheduler is enabled, the actor its selection returns,
\* if Ready, has the highest priority class among the Ready actors (a smaller
\* number is a higher class): no Ready actor of a higher class exists.
StrictPrioritySelection ==
    scheduler_enabled =>
        LET next_actor == scheduler_select_next_actor(Kernel)
        IN  (next_actor # NULL /\ actor_pool[next_actor].state = ACTOR_STATE_READY)
            => \A a \in ActorSlots :
                  (actors[a] /\ actor_pool[a].state = ACTOR_STATE_READY)
                  => actor_pool[next_actor].priority <= actor_pool[a].priority

\* C24: when the Running current actor yields while another actor of the
\* same priority is Ready and linked in the ready queue, the scheduler does
\* not select the yielding actor again before the other has run: the
\* current actor after the yield is another actor.
YielderNotSelectedAgain ==
    \A a, b \in ActorSlots :
        ( /\ scheduler_enabled
          /\ a # b /\ actors[a] /\ actors[b]
          /\ current_actor = a
          /\ actor_pool[a].state = ACTOR_STATE_RUNNING
          /\ actor_pool[b].state = ACTOR_STATE_READY
          /\ InReadyQueue(b)
          /\ actor_pool[a].priority = actor_pool[b].priority )
        => scheduler_yield(Kernel).cur # a

\* C25: a timer tick never switches the current actor: after
\* scheduler_timer_handler the current actor is the one it was before.
TickKeepsCurrentActor ==
    scheduler_timer_handler(Kernel).cur = current_actor

\* C26: the scheduler's current-actor reference never designates a freed
\* actor slot: the slot of the current actor is in use and registered.
CurrentActorSlotInUse ==
    current_actor # NULL =>
        actor_pool_used[current_actor] /\ actors[current_actor]

\* C27: a System message sent to a mailbox that already holds as many
\* messages as its capacity is accepted, the mailbox then holding one more
\* than its capacity, and a further System send to it is rejected.
SystemMessageSlack ==
    \A a \in ActorSlots :
        (actors[a] /\ Full(a) /\ FirstFreeMessage(Kernel) # NULL)
        => LET send == message_send_async(Kernel, a, MSG_TYPE_SYSTEM,
                                          Buffer(<<7>>), 1, TRUE)
               further == message_send_async(send.k, a, MSG_TYPE_SYSTEM,
                                             Buffer(<<7>>), 1, TRUE)
           IN  /\ send.ok
               /\ send.k.ap[a].queue_size = actor_pool[a].max_queue_size + 1
               /\ ~further.ok

\* C28: a message_send_async that fails leaves the kernel as it was before
\* the call (every mailbox and queue_size, the messages_sent counter, the
\* used message-pool slots), and the buffer it allocated for the payload,
\* if it allocated one, is released exactly once.
FailedSendLeavesNoTrace ==
    \A a \in ActorIds, t \in MsgTypes, p \in Payloads, kmalloc_ok \in BOOLEAN :
        LET send == message_send_async(Kernel, a, t, p[1], p[2], kmalloc_ok)
            copied == /\ actor_get(Kernel, a) # NULL
                      /\ FirstFreeMessage(Kernel) # NULL
                      /\ p[1].ptr /\ p[2] > 0 /\ kmalloc_ok
        IN  ~send.ok =>
              /\ send.k = Kernel
              /\ send.frees = IF copied THEN 1 ELSE 0

\* The edges of the actor state machine, as pairs << from, to >>.
ActorStates == ACTOR_STATE_CREATED .. ACTOR_STATE_SUSPENDED
ListedEdges ==
    { << ACTOR_STATE_CREATED, ACTOR_STATE_READY >>,
      << ACTOR_STATE_READY, ACTOR_STATE_RUNNING >>,
      << ACTOR_STATE_RUNNING, ACTOR_STATE_READY >>,
      << ACTOR_STATE_RUNNING, ACTOR_STATE_BLOCKED >>,
      << ACTOR_STATE_BLOCKED, ACTOR_STATE_READY >>,
      << ACTOR_STATE_SUSPENDED, ACTOR_STATE_READY >>,
      << ACTOR_STATE_RUNNING, ACTOR_STATE_FINISHED >> }
    \cup { << from, ACTOR_STATE_SUSPENDED >> : from \in ActorStates }
    \cup { << from, ACTOR_STATE_ERROR >> : from \in ActorStates }

\* C29: every step that changes the state of an actor that is registered
\* before and after the step takes one of the listed edges (the freeing of a
\* slot by terminate is not counted as an edge here), and actor_start on an
\* actor that is not Created fails and changes nothing.
OnlyListedEdges ==
    [][ /\ \A a \in ActorSlots :
              (actors[a] /\ actors'[a]
                  /\ actor_pool'[a].state # actor_pool[a].state)
              => << actor_pool[a].state, actor_pool'[a].state >> \in ListedEdges
        /\ \A id \in ActorIds :
              LET actor == actor_get(Kernel, id)
                  start == actor_start(Kernel, id)
              IN  (actor # NULL /\ actor_pool[actor].state # ACTOR_STATE_CREATED)
                  => ~start.ok /\ start.k = Kernel ]_vars

\* C30: the timeslice counter is always below the timeslice, and a timer
\* tick adds exactly one to the tick count and to the cpu time of the actor
\* that is current when it arrives (and to no other actor's), and advances
\* the timeslice counter by one; when the counter reaches the timeslice it is
\* reset to 0 and the handler yields, and otherwise nothing else changes.
TickAccounting ==
    /\ current_timeslice \in 0 .. (SCHEDULER_TIMESLICE_MS - 1)
    /\ LET k == scheduler_timer_handler(Kernel)
           reaches == current_timeslice + 1 = SCHEDULER_TIMESLICE_MS
           counted == [Kernel EXCEPT
                         !.ticks = tick_count + 1,
                         !.slice = IF reaches THEN 0 ELSE current_timeslice + 1,
                         !.ap = [a \in ActorSlots |->
                                   IF a = current_actor
                                   THEN [actor_pool[a] EXCEPT !.cpu_time_used = @ + 1]
                                   ELSE actor_pool[a]]]
       IN  /\ k.ticks = tick_count + 1
           /\ k.slice = IF reaches THEN 0 ELSE current_timeslice + 1
           /\ \A a \in ActorSlots :
                 k.ap[a].cpu_time_used
                     = actor_pool[a].cpu_time_used + (IF a = current_actor THEN 1 ELSE 0)
           /\ k = IF reaches THEN scheduler_yield(counted) ELSE counted

\* C30's case: a whole timeslice has gone by and its last tick has handed
\* the CPU to another actor, which the next tick has charged.
TickedPastTimeslice ==
    /\ tick_count = SCHEDULER_TIMESLICE_MS + 1
    /\ current_timeslice = 1
    /\ \E a, b \in ActorSlots :
          /\ a # b
          /\ actor_pool[a].cpu_time_used = SCHEDULER_TIMESLICE_MS
          /\ actor_pool[b].cpu_time_used = 1
          /\ current_actor = b

\* The names C31 is evaluated on: no characters, a deny-list name, a proper
\* prefix of one, an extension of one, and a name that shares no prefix.
CallNames ==
    { << >>, <<"f", "o", "r", "k">>, <<"f", "o", "r">>,
      <<"f", "o", "r", "k", "s">>, <<"o", "p", "e", "n">> }
DenyList == { restricted_funcs[i] : i \in 1 .. Len(restricted_funcs) }

\* C31: for a sandboxed module under its ModuleCalls limit,
\* sandboxing_check_function_call(name) is rejected exactly when name is one
\* of the deny-list names; the empty name, proper prefixes and extensions of
\* a deny-list name are allowed.
RejectsExactlyDenyList ==
    \A m \in SandboxModuleIds, name \in CallNames :
        LET i == sandboxing_find_sandbox_by_module(sandbox_system, m)
            found == LimitIndex(sandbox_system.sandboxes[i].limits,
                                RESOURCE_MODULE_CALLS)
            r == sandboxing_check_function_call(sandbox_system, m, Name(name))
        IN  (/\ i # NULL
             /\ found # 0
             /\ sandbox_system.sandboxes[i].limits[found].current_usage
                    < sandbox_system.sandboxes[i].limits[found].limit)
            => (~r.ret <=> name \in DenyList)

\* C32: for an enforced ModuleCalls limit with used <= limit, neither a
\* charge of one by sandboxing_update_resource_usage nor
\* sandboxing_check_function_call (which charges ModuleCalls) leaves used
\* above the limit, and a charge that would exceed the limit fails and
\* leaves used as it was.
ChargeStaysWithinLimit ==
    \A m \in SandboxModuleIds :
        LET i == sandboxing_find_sandbox_by_module(sandbox_system, m)
            found == LimitIndex(sandbox_system.sandboxes[i].limits,
                                RESOURCE_MODULE_CALLS)
            before == sandbox_system.sandboxes[i].limits[found]
            charge == sandboxing_update_resource_usage(
                          sandbox_system, m, RESOURCE_MODULE_CALLS, 1)
            call == sandboxing_check_function_call(
                        sandbox_system, m, Name(<<"o", "p", "e", "n">>))
            UsedAfter(s) == s.sandboxes[i].limits[found].current_usage
        IN  (/\ i # NULL /\ found # 0
             /\ before.enforce
             /\ before.current_usage <= before.limit)
            => /\ UsedAfter(charge.s) <= before.limit
               /\ UsedAfter(call.s) <= before.limit
               /\ (before.current_usage + 1 > before.limit)
                     => /\ charge.ret # 0
                        /\ UsedAfter(charge.s) = before.current_usage
                        /\ ~call.ret
                        /\ UsedAfter(call.s) = before.current_usage

\* Images whose sections are each within MAX_MODULE_SIZE: code 8 and data 4
\* bytes, and a bss that brings the total to MAX_MODULE_SIZE exactly, to one
\* byte more, and to MAX_MODULE_SIZE + 12.
SectionBoundImages ==
    { << Image(MODULE_MAGIC, MODULE_VERSION, n, 0, b, 0, 0),
         MODULE_HEADER_SIZE + 12 >> :
        n \in ModuleNames,
        b \in { MAX_MODULE_SIZE - 12, MAX_MODULE_SIZE - 11, MAX_MODULE_SIZE } }

TotalSize(image) == image.code_size + image.data_size + image.bss_size

\* C33: every registered module has a total image size of at most 1 MiB;
\* a load that succeeds is of an image whose code, data and bss sections and
\* whose total are each at most 1 MiB, and the load of an image whose
\* sections are within 1 MiB but whose total is above it returns 0, even
\* when the heap has room.
TotalImageSizeCapped ==
    /\ \A i \in ModuleSlots :
          Listed(i) => module_pool[i].total_size <= MAX_MODULE_SIZE
    /\ \A image \in SectionBoundImages \cup InvalidImages \cup ValidImages :
       \A kmalloc_ok \in BOOLEAN :
          LET l == module_load(Registry, image[1], image[2], kmalloc_ok, 0)
          IN  /\ l.id # 0 =>
                    /\ image[1].ptr
                    /\ image[1].code_size <= MAX_MODULE_SIZE
                    /\ image[1].data_size <= MAX_MODULE_SIZE
                    /\ image[1].bss_size <= MAX_MODULE_SIZE
                    /\ TotalSize(image[1]) <= MAX_MODULE_SIZE
                    /\ module_get(l.r, l.id) \in ModuleSlots
                    /\ l.r.mp[module_get(l.r, l.id)].total_size
                           = TotalSize(image[1])
              /\ (image[1].ptr /\ TotalSize(image[1]) > MAX_MODULE_SIZE)
                    => l.id = 0 /\ l.r.count = Registry.count

\* A module is registered, a slot is free, and of two images with a name
\* not yet registered the one of exactly 1 MiB loads and the one of 1 MiB
\* and a byte is refused.
OversizedImageRefused ==
    /\ \E i \in ModuleSlots : Listed(i)
    /\ \E x, y \in SectionBoundImages :
          /\ x[1].name = y[1].name
          /\ TotalSize(x[1]) = MAX_MODULE_SIZE
          /\ TotalSize(y[1]) = MAX_MODULE_SIZE + 1
          /\ module_load(Registry, x[1], x[2], TRUE, 0).id # 0
          /\ module_load(Registry, y[1], y[2], TRUE, 0).id = 0

\* C34: the violation log is a bounded ring.  With n = total_violations
\* violations logged so far, ids are handed out in logging order (the k-th
\* logged violation has id k), the write index is below the size of the log
\* and the count is min(n, size); the count most recent violations are in
\* the log, the j-th most recent one in the slot j + 1 places behind the
\* write index.
ViolationLogIsRing ==
    LET s == sandbox_system
        n == s.total_violations
    IN  /\ s.violation_index \in ViolationSlots
        /\ s.violation_index = n % MAX_VIOLATION_LOG
        /\ s.violation_count <= MAX_VIOLATION_LOG
        /\ s.violation_count = IF n < MAX_VIOLATION_LOG THEN n ELSE MAX_VIOLATION_LOG
        /\ s.next_violation_id = n + 1
        /\ \A j \in 0 .. (s.violation_count - 1) :
              s.violations[((s.violation_index - 1 - j) + MAX_VIOLATION_LOG)
                               % MAX_VIOLATION_LOG].violation_id = n - j

\* C34's case: more violations have been logged than the log holds, so the
\* oldest entry has been overwritten.
OldestViolationOverwritten ==
    /\ sandbox_system.total_violations = MAX_VIOLATION_LOG + 1
    /\ sandbox_system.violation_count = MAX_VIOLATION_LOG
    /\ \A i \in ViolationSlots : sandbox_system.violations[i].violation_id > 1

\* C35: at most one active sandbox exists per module id, sandbox_count is
\* the number of active sandbox slots and at most MAX_SANDBOXES, and
\* sandboxing_create_sandbox for a module that already has a sandbox fails
\* and changes nothing.
OneSandboxPerModule ==
    LET s == sandbox_system IN
    /\ \A i, j \in SandboxSlots :
          ( /\ s.sandboxes[i].active /\ s.sandboxes[j].active
            /\ s.sandboxes[i].module_id = s.sandboxes[j].module_id ) => i = j
    /\ s.sandbox_count = Cardinality({i \in SandboxSlots : s.sandboxes[i].active})
    /\ s.sandbox_count <= MAX_SANDBOXES
    /\ \A m \in SandboxModuleIds, level \in SandboxLevels :
          sandboxing_find_sandbox_by_module(s, m) # NULL
          => LET r == sandboxing_create_sandbox(s, m, level)
             IN  r.ret < 0 /\ r.s = s

\* C35's case: both modules have a sandbox, so that every further create
\* names a module that already has one.
TwoModulesSandboxed ==
    /\ sandbox_system.sandbox_count = 2
    /\ \A m \in SandboxModuleIds :
          sandboxing_find_sandbox_by_module(sandbox_system, m) # NULL

\* C36: module_start succeeds only on a module in state Loaded and leaves it
\* Running, module_stop succeeds only on a module in state Running and
\* leaves it Loaded, in any other state each returns false and leaves the
\* module's state unchanged, and a module loaded with AutoStart is Running
\* when module_load returns its id.
StartStopTransitions ==
    /\ \A i \in ModuleSlots : \A init_result \in {0, 1} :
        Listed(i) =>
            LET id == Registry.mp[i].module_id
                st == module_start(Registry, id, init_result)
                sp == module_stop(Registry, id)
            IN  /\ st.ok => /\ Registry.mp[i].state = MODULE_STATE_LOADED
                            /\ st.r.mp[i].state = MODULE_STATE_RUNNING
                /\ sp.ok => /\ Registry.mp[i].state = MODULE_STATE_RUNNING
                            /\ sp.r.mp[i].state = MODULE_STATE_LOADED
                /\ Registry.mp[i].state # MODULE_STATE_LOADED
                       => ~st.ok /\ st.r.mp[i].state = Registry.mp[i].state
                /\ Registry.mp[i].state # MODULE_STATE_RUNNING
                       => ~sp.ok /\ sp.r.mp[i].state = Registry.mp[i].state
    /\ \A image \in ValidImages : \A init_result \in {0, 1} :
        HasFlag(image[1].flags, MODULE_FLAG_AUTO_START) =>
            LET l == module_load(Registry, image[1], image[2], TRUE, init_result)
            IN  l.id # 0 =>
                    \E i \in ModuleSlots :
                        /\ l.r.mp[i].module_id = l.id
                        /\ l.r.mp[i].state = MODULE_STATE_RUNNING

\* The stack sizes a caller may ask for: the default (0), a page, the
\* default memory limit, one byte more, and a page more.
RequestedStackSizes ==
    StackSizes \cup {0, ACTOR_MEMORY_LIMIT, ACTOR_MEMORY_LIMIT + 1}

\* C37: every registered actor but the kernel actor has memory_used <=
\* memory_limit, and so has the actor an actor_create returns, whatever
\* stack size was asked for: a create whose stack is above the 1 MiB
\* default limit returns 0 and registers no actor.
MemoryUsedWithinLimit ==
    /\ \A a \in ActorSlots :
          (a # 0 /\ actors[a])
              => actor_pool[a].memory_used <= actor_pool[a].memory_limit
    /\ \A stack_size \in RequestedStackSizes, kmalloc_ok \in BOOLEAN :
          LET c == actor_create(Kernel, TRUE, ACTOR_PRIORITY_NORMAL,
                                stack_size, kmalloc_ok)
          IN  /\ c.id # 0 =>
                    /\ c.k.at[c.id]
                    /\ c.k.ap[c.id].memory_used
                           = (IF stack_size = 0 THEN ACTOR_STACK_SIZE
                                                ELSE stack_size)
                    /\ c.k.ap[c.id].memory_used <= c.k.ap[c.id].memory_limit
              /\ stack_size > ACTOR_MEMORY_LIMIT
                    => c.id = 0 /\ c.k.at = Kernel.at

\* An actor holds its stack, a slot is free, and with room in the heap a
\* create with a stack of exactly the limit succeeds and one with a stack
\* of a byte more returns 0.
OversizedStackRefused ==
    /\ \E a \in ActorSlots :
          a # 0 /\ actors[a] /\ actor_pool[a].memory_used = 4096
    /\ actor_create(Kernel, TRUE, ACTOR_PRIORITY_NORMAL,
                    ACTOR_MEMORY_LIMIT, TRUE).id # 0
    /\ actor_create(Kernel, TRUE, ACTOR_PRIORITY_NORMAL,
                    ACTOR_MEMORY_LIMIT + 1, TRUE).id = 0

RECURSIVE QueueFrom(_, _, _)
\* The actors reached from an actor by following next, in order.
QueueFrom(k, from, fuel) ==
    IF from = NULL \/ fuel = 0 THEN << >>
    ELSE << from >> \o QueueFrom(k, k.ap[from].next, fuel - 1)

\* The ready queue of a scheduler state, front first.
ReadyQueueOf(k) == QueueFrom(k, k.rq, MAX_ACTORS)

\* The ready queue without one actor, the order kept.
QueueWithout(q, a) ==
    LET keep(b) == b # a IN SelectSeq(q, keep)

\* C38: removing an actor that is not linked in the ready queue leaves the
\* queue as it was.  actor_terminate of a Created, Blocked or Running actor
\* that is not linked leaves the same actors linked in the same order, and a
\* message_wait that blocks the running actor, itself not linked, leaves
\* linked in the same order every actor but the one its yield dispatches.
UnlinkedRemovalKeepsQueue ==
    LET q == ReadyQueueOf(Kernel)
        unlinked(a) == \A i \in 1 .. Len(q) : q[i] # a
    IN  /\ \A a \in ActorSlots :
              (/\ actors[a]
               /\ actor_pool[a].state \in
                      {ACTOR_STATE_CREATED, ACTOR_STATE_BLOCKED, ACTOR_STATE_RUNNING}
               /\ unlinked(a))
                  => ReadyQueueOf(actor_terminate(Kernel, a)) = q
        /\ (current_actor # NULL /\ unlinked(current_actor))
              => LET w == message_wait(Kernel, 0)
                 IN  w.blocked =>
                        ReadyQueueOf(w.k)
                            = (IF w.k.cur # current_actor
                               THEN QueueWithout(q, w.k.cur) ELSE q)

\* The calls made on one loaded module: a start whose init returns 0, a
\* start whose init fails, a stop, an unload.
LifecycleLen == 3
LifecycleCalls == {"start", "start_failing", "stop", "unload"}
CallSequences ==
    UNION { [1 .. n -> LifecycleCalls] : n \in 1 .. LifecycleLen }

\* One call on the module: the registry after it, the calls of the init
\* function it makes, whether such a call returned 0, and the calls of the
\* exit function it makes.
LifecycleCall(r, id, call) ==
    IF call = "start" \/ call = "start_failing"
    THEN LET st == module_start(r, id, IF call = "start" THEN 0 ELSE 1)
         IN  [r |-> st.r, inits |-> st.inits,
              init_ok |-> st.ok /\ st.inits = 1, exits |-> 0]
    ELSE LET sp == IF call = "stop" THEN module_stop(r, id)
                                    ELSE module_unload(r, id)
         IN  [r |-> sp.r, inits |-> 0, init_ok |-> FALSE, exits |-> sp.exits]

RECURSIVE ExitsWithinInits(_, _, _, _, _, _)
\* After every call of the sequence the exit function has been called at
\* most as often as the init function has returned 0, and not at all before
\* the init function was first called.
ExitsWithinInits(r, id, calls, inits, inits_ok, exits) ==
    IF calls = << >> THEN TRUE
    ELSE LET c  == LifecycleCall(r, id, Head(calls))
             i  == inits + c.inits
             ok == inits_ok + (IF c.init_ok THEN 1 ELSE 0)
             e  == exits + c.exits
         IN  /\ e <= ok
             /\ e > 0 => i > 0
             /\ ExitsWithinInits(c.r, id, Tail(calls), i, ok, e)

\* C39: over every sequence of module_start, module_stop and module_unload
\* on a module that module_load has just registered, the module's exit
\* function is called at most once per successful call of its init function
\* and never before its init function has been called.
ExitAtMostOncePerInit ==
    \A image \in ValidImages, init_result \in {0, 1} :
        LET l == module_load(Registry, image[1], image[2], TRUE, init_result)
        IN  l.id # 0 =>
                \A calls \in CallSequences :
                    ExitsWithinInits(l.r, l.id, calls, l.inits,
                                     IF l.init_ok THEN 1 ELSE 0, 0)

\* The resources sandboxing_quarantine_module sets a limit for.
QuarantinedResources ==
    { RESOURCE_MEMORY, RESOURCE_CHILD_ACTORS, RESOURCE_HEAP_ALLOCS,
      RESOURCE_MODULE_CALLS }

\* C40: quarantining a module never loosens its resource limits.  For every
\* module with a sandbox, after sandboxing_quarantine_module each of its
\* Memory, ChildActors, HeapAllocs and ModuleCalls limits that was set
\* before the call is at most what it was before the call.
QuarantineNeverLoosens ==
    \A m \in SandboxModuleIds :
        LET sandbox == sandboxing_find_sandbox_by_module(sandbox_system, m)
            q == sandboxing_quarantine_module(sandbox_system, m)
        IN  (sandbox # NULL /\ q.ret = 0) =>
                \A resource_type \in QuarantinedResources :
                    LET before == LimitOf(sandbox_system, sandbox, resource_type)
                        after  == LimitOf(q.s, sandbox, resource_type)
                    IN  before # NULL => (after # NULL /\ after <= before)
====
